---------------------------- MODULE Spec2Model ----------------------------
(***************************************************************************)
(* A model of ColorExtractor's palette engine (src/src/palette.py) and of  *)
(* the parts of the application shell (src/src/app.py) that drive it.      *)
(*                                                                         *)
(* An image is a record [w, h, px]: px is the row-major sequence of its    *)
(* RGBA pixels, the order in which numpy's boolean-mask indexing           *)
(* (arr[:, :, :3][mask]) delivers them.  A hex string is a sequence of     *)
(* one-character strings, so that formatting and parsing are computed      *)
(* character by character.  Pillow's resize (LANCZOS) and its adaptive     *)
(* quantizer are library code: they are modelled by the set of results     *)
(* they can deliver, and the result actually delivered is recorded in the  *)
(* call record.                                                            *)
(***************************************************************************)
EXTENDS Integers, Sequences, FiniteSets, TLC

VARIABLES
    img,      \* the image the session holds (ColorExtractor.img)
    thr,      \* the thresholds in force (Palette.MAX_SAMPLE_DIM, ...)
    colors,   \* Palette.colors: the ordered sequence of entries
    op,       \* the operation that ran last
    args,     \* its arguments, and what the library calls inside it returned
    raised,   \* the exception it raised, or NoError
    ret,      \* the value it returned
    markers,  \* ColorExtractor.markers: the (rgb, position) pairs last picked
    settings_file  \* the settings file on disk (SETTINGS_FILE)

vars == <<img, thr, colors, op, args, raised, ret, markers, settings_file>>

----------------------------------------------------------------------------
(* Bounds of the model.                                                    *)

\* Longest side of an enumerated image.
MaxDim == 3
\* Longest string handed to hex_to_rgb.
MaxHexLen == 5
\* Longest palette: add_color is called on shorter ones only.
MaxLen == 3
\* Longest palette of a session: the color chooser adds to shorter ones only.
MaxTiles == 2

----------------------------------------------------------------------------
(* Small helpers.                                                          *)

Max(a, b) == IF a >= b THEN a ELSE b
Min(a, b) == IF a <= b THEN a ELSE b

\* Python's None and a present optional value.
None == <<>>
Some(x) == <<x>>

NoError == "none"

\* No settings file on disk.
NoFile == [kind |-> "absent", data |-> <<>>]
ValueError == "ValueError"

----------------------------------------------------------------------------
(* Color codec: rgb_to_hex, hex_to_rgb.                                    *)

UpperDigits == <<"0","1","2","3","4","5","6","7","8","9","A","B","C","D","E","F">>
LowerDigits == <<"0","1","2","3","4","5","6","7","8","9","a","b","c","d","e","f">>

\* The characters of format spec 'X' for a non-negative integer.
RECURSIVE FormatX(_)
FormatX(v) ==
    IF v < 16 THEN <<UpperDigits[v + 1]>>
    ELSE FormatX(v \div 16) \o <<UpperDigits[(v % 16) + 1]>>

\* A variant that formats like '{:02x}': lower-case digits.
Format02XLower(v) ==
    LET d == FormatX(v)
        l == [i \in 1..Len(d) |->
                LowerDigits[CHOOSE k \in 1..16 : UpperDigits[k] = d[i]]]
    IN IF Len(l) < 2 THEN <<"0">> \o l ELSE l

\* '{:02X}'.format(v): FormatX padded with zeros on the left to width 2.
Format02X(v) ==
    LET d == FormatX(v)
    IN IF Len(d) < 2 THEN <<"0">> \o d ELSE d

rgb_to_hex(rgb) ==
    <<"#">> \o Format02X(rgb[1]) \o Format02X(rgb[2]) \o Format02X(rgb[3])

\* The characters str.strip() removes.
WhiteSpace == {" ", "\t"}

RECURSIVE LStrip(_, _)
LStrip(s, chars) ==
    IF s # <<>> /\ Head(s) \in chars THEN LStrip(Tail(s), chars) ELSE s

RECURSIVE RStrip(_, _)
RStrip(s, chars) ==
    IF s # <<>> /\ s[Len(s)] \in chars
    THEN RStrip(SubSeq(s, 1, Len(s) - 1), chars)
    ELSE s

Strip(s) == RStrip(LStrip(s, WhiteSpace), WhiteSpace)

\* Python's s[i:j] for 0 <= i <= j, clipped to the string (0-based, j exclusive).
Slice(s, i, j) == SubSeq(s, i + 1, Min(j, Len(s)))

IsHexDigit(c) ==
    \E k \in 1..16 : UpperDigits[k] = c \/ LowerDigits[k] = c

HexValue(c) ==
    (CHOOSE k \in 1..16 : UpperDigits[k] = c \/ LowerDigits[k] = c) - 1

RECURSIVE DigitsValue(_)
DigitsValue(d) ==
    IF d = <<>> THEN 0
    ELSE 16 * DigitsValue(SubSeq(d, 1, Len(d) - 1)) + HexValue(d[Len(d)])

\* int(s, 16) for a string of at most two characters: surrounding
\* whitespace is dropped, one sign is accepted, and what remains must be one
\* or more hex digits (the '0x' prefix and the '_' separator need three
\* characters).  None stands for the ValueError int raises.
ParseInt16(s) ==
    LET t == Strip(s)
        neg == t # <<>> /\ Head(t) = "-"
        d == IF t # <<>> /\ Head(t) \in {"+", "-"} THEN Tail(t) ELSE t
    IN IF d = <<>> \/ \E i \in 1..Len(d) : ~IsHexDigit(d[i])
       THEN None
       ELSE Some(IF neg THEN 0 - DigitsValue(d) ELSE DigitsValue(d))

\* hex_to_rgb: [raised, value].
hex_to_rgb(hexstr) ==
    LET h == LStrip(Strip(hexstr), {"#"})
        g == [k \in 1..3 |-> ParseInt16(Slice(h, 2 * (k - 1), 2 * (k - 1) + 2))]
    IN IF \E k \in 1..3 : g[k] = None
       THEN [raised |-> ValueError, value |-> <<>>]
       ELSE [raised |-> NoError, value |-> <<g[1][1], g[2][1], g[3][1]>>]

----------------------------------------------------------------------------
(* Images.                                                                 *)

Red == <<255, 0, 0>>
Green == <<0, 255, 0>>
Mix == <<10, 20, 30>>

\* The colors of source images, and the colors a resampling or a
\* quantization of them can deliver (blends of the source colors).
SourceColors == {Red, Green}
Universe == SourceColors \cup {Mix}

Opaque(c) == [rgb |-> c, a |-> 255]
Transparent == [rgb |-> <<0, 0, 0>>, a |-> 0]

SourcePixels == {Transparent} \cup {Opaque(c) : c \in SourceColors}

\* The 2x2 image of the specification's example scenario: red, red, green
\* and one transparent pixel.
ExampleImage ==
    [w |-> 2, h |-> 2, px |-> <<Opaque(Red), Opaque(Red), Opaque(Green), Transparent>>]

\* The enumerated images: every single-row and single-column image of at
\* most MaxDim pixels, and the example image.
Shapes == {<<d, 1>> : d \in 1..MaxDim} \cup {<<1, d>> : d \in 1..MaxDim}

Images ==
    {ExampleImage} \cup
    UNION {{[w |-> s[1], h |-> s[2], px |-> p] :
                p \in [1..(s[1] * s[2]) -> SourcePixels]} : s \in Shapes}

\* A variant that applies no mask: the RGB triples of all pixels.
MaskedRgbUnmasked(px) == [i \in 1..Len(px) |-> px[i].rgb]

\* arr[:, :, :3][alpha > 0]: the RGB triples of the pixels with alpha > 0,
\* in row-major order.
RECURSIVE MaskedRgb(_)
MaskedRgb(px) ==
    IF px = <<>> THEN <<>>
    ELSE (IF Head(px).a > 0 THEN <<Head(px).rgb>> ELSE <<>>) \o MaskedRgb(Tail(px))

\* int(d * (max_dim / longest)), at least 1: a side of the resized image.
\* (The quotient is taken exactly; the source's float product can fall one
\* short of it.)
ScaledSide(d, max_dim, longest) == Max(1, (d * max_dim) \div longest)

NeedsResize(im, max_dim) == Max(im.w, im.h) > max_dim

\* The images im.resize(size, Image.LANCZOS) can deliver: size pixels, each
\* a blend of source pixels.  A blend of pixels that are all alike is that
\* pixel.  Otherwise it is transparent (only when some source pixel is), or
\* opaque with the color of an opaque source pixel or with a color of its
\* own (Mix).
ResizeOutcomes(im, max_dim) ==
    LET longest == Max(im.w, im.h)
        w2 == ScaledSide(im.w, max_dim, longest)
        h2 == ScaledSide(im.h, max_dim, longest)
        D == {im.px[i].rgb : i \in {j \in 1..Len(im.px) : im.px[j].a > 0}}
        uniform == \A i, j \in 1..Len(im.px) : im.px[i] = im.px[j]
        allowed == {Opaque(c) : c \in D}
                      \cup (IF D # {} /\ ~uniform THEN {Opaque(Mix)} ELSE {})
                      \cup (IF \E i \in 1..Len(im.px) : im.px[i].a = 0
                            THEN {Transparent} ELSE {})
    IN {[w |-> w2, h |-> h2, px |-> p] : p \in [1..(w2 * h2) -> allowed]}

\* The sample a builder works on: the image itself, or one of its resizings.
Samples(im, max_dim) ==
    IF NeedsResize(im, max_dim) THEN ResizeOutcomes(im, max_dim) ELSE {im}

----------------------------------------------------------------------------
(* numpy and list helpers.                                                 *)

\* Row order of np.unique(axis=0): lexicographic on (r, g, b).
RgbLess(a, b) ==
    \/ a[1] < b[1]
    \/ a[1] = b[1] /\ a[2] < b[2]
    \/ a[1] = b[1] /\ a[2] = b[2] /\ a[3] < b[3]

RECURSIVE SortedRows(_)
SortedRows(S) ==
    IF S = {} THEN <<>>
    ELSE LET m == CHOOSE c \in S : \A d \in S : d = c \/ RgbLess(c, d)
         IN <<m>> \o SortedRows(S \ {m})

Occurrences(rows, c) == Cardinality({i \in 1..Len(rows) : rows[i] = c})

\* A variant that merges nothing: every row, with count 1.
NpUniqueRowwise(rows) == [i \in 1..Len(rows) |-> [rgb |-> rows[i], count |-> 1]]

\* np.unique(rows, axis=0, return_counts=True): the distinct rows in
\* lexicographic order, each with its number of occurrences.
NpUnique(rows) ==
    LET vals == SortedRows({rows[i] : i \in 1..Len(rows)})
    IN [i \in 1..Len(vals) |-> [rgb |-> vals[i], count |-> Occurrences(rows, vals[i])]]

\* A variant that sorts without reverse=True: ascending counts.
InsertByCountAsc(sorted, e) ==
    LET k == Cardinality({i \in 1..Len(sorted) : sorted[i].count <= e.count})
    IN SubSeq(sorted, 1, k) \o <<e>> \o SubSeq(sorted, k + 1, Len(sorted))

\* list.sort(key=lambda x: x['count'], reverse=True), one insertion at a
\* time: stable, so entries of equal count keep their order.
InsertByCountDesc(sorted, e) ==
    LET k == Cardinality({i \in 1..Len(sorted) : sorted[i].count >= e.count})
    IN SubSeq(sorted, 1, k) \o <<e>> \o SubSeq(sorted, k + 1, Len(sorted))

RECURSIVE SortByCountDesc(_)
SortByCountDesc(s) ==
    IF s = <<>> THEN <<>>
    ELSE InsertByCountDesc(SortByCountDesc(SubSeq(s, 1, Len(s) - 1)), s[Len(s)])

\* A variant whose hex is formatted with '#{:X}{:X}{:X}': no padding.
EntryUnpadded(rgb, count) ==
    [rgb |-> rgb, hex |-> <<"#">> \o FormatX(rgb[1]) \o FormatX(rgb[2]) \o FormatX(rgb[3]),
     count |-> count, enabled |-> TRUE]

\* {'rgb': rgb, 'hex': rgb_to_hex(rgb), 'count': int(c), 'enabled': True}
Entry(rgb, count) ==
    [rgb |-> rgb, hex |-> rgb_to_hex(rgb), count |-> count, enabled |-> TRUE]

\* The mapping list a builder makes of (color, count) rows, sorted by count.
Mapping(rows) ==
    SortByCountDesc([i \in 1..Len(rows) |-> Entry(rows[i].rgb, rows[i].count)])

----------------------------------------------------------------------------
(* Palette.from_image_quant.                                               *)

\* The largest number of colors Pillow's quantizer accepts; it raises
\* ValueError ("bad number of colors") outside 1..256.
QUANT_MAX_COLORS == 256

QuantizerRejects(n) == n < 1 \/ n > QUANT_MAX_COLORS

\* What tmp.convert('P', palette=Image.ADAPTIVE, colors=n), getpalette and
\* getcolors can deliver for the pixel row `rows`: every distinct color is
\* mapped to one of at most n palette indices; getcolors lists the used
\* indices in increasing order, each with the number of pixels mapped to it.
\* The palette color of an index is the mean of its box: the color itself
\* when the box holds one color, a blend (Mix) otherwise.
QuantizeOutcomes(rows, n) ==
    LET D == {rows[i] : i \in 1..Len(rows)}
        Boxes(j) == {f \in [D -> 1..j] : \A k \in 1..j : \E c \in D : f[c] = k}
        Members(f, k) == {c \in D : f[c] = k}
        Count(f, k) == Cardinality({i \in 1..Len(rows) : f[rows[i]] = k})
        Means(f, k) == IF Cardinality(Members(f, k)) = 1 THEN Members(f, k) ELSE {Mix}
    IN UNION {UNION {
            {[k \in 1..j |-> [rgb |-> m[k], count |-> Count(f, k)]] :
                m \in {mm \in [1..j -> Universe] : \A k \in 1..j : mm[k] \in Means(f, k)}}
            : f \in Boxes(j)} : j \in 1..Min(n, Cardinality(D))}

\* A variant that lets n = 0 through.
QuantEarlyReturnStrict(n) == n < 0

\* if n <= 0
QuantEarlyReturn(n) == n <= 0

\* The outcomes of from_image_quant(img, n, max_dim) on a palette holding
\* cur: [raised, colors, sample].
from_image_quant(im, n, max_dim, cur) ==
    IF QuantEarlyReturn(n)
    THEN {[raised |-> NoError, colors |-> <<>>, sample |-> <<>>]}
    ELSE UNION {
        LET rgb_pixels == MaskedRgb(sample.px)
            seen == IF NeedsResize(im, max_dim) THEN sample.px ELSE <<>>
        IN IF rgb_pixels = <<>>
           THEN {[raised |-> NoError, colors |-> <<>>, sample |-> seen]}
           ELSE IF QuantizerRejects(n)
           THEN {[raised |-> ValueError, colors |-> cur, sample |-> seen]}
           ELSE {[raised |-> NoError, colors |-> Mapping(q), sample |-> seen] :
                    q \in QuantizeOutcomes(rgb_pixels, n)}
        : sample \in Samples(im, max_dim)}

----------------------------------------------------------------------------
(* Palette.estimate_unique_stats.                                          *)

\* The outcomes of estimate_unique_stats(img, max_sample_dim): [ret, sample].
estimate_unique_stats(im, max_sample_dim) ==
    LET total_pixels == Len(MaskedRgb(im.px))
    IN IF total_pixels = 0
       THEN {[ret |-> <<0, 0, 0>>, sample |-> <<>>]}
       ELSE {LET rgb_sample == MaskedRgb(sample.px)
                 seen == IF NeedsResize(im, max_sample_dim) THEN sample.px ELSE <<>>
             IN IF rgb_sample = <<>>
                THEN [ret |-> <<0, 0, total_pixels>>, sample |-> seen]
                ELSE [ret |-> <<Len(NpUnique(rgb_sample)), Len(rgb_sample), total_pixels>>,
                      sample |-> seen]
             : sample \in Samples(im, max_sample_dim)}

----------------------------------------------------------------------------
(* Palette.from_image_max.                                                 *)

\* A ratio threshold is a pair <<num, den>>: count / pixels <= num / den.
RatioAtMost(count, pixels, ratio) == count * ratio[2] <= ratio[1] * pixels

\* A variant that always scans the full-resolution image.
do_full_scan_always(force_full_scan, sample_unique_count, sample_len, total_pixels, t) ==
    TRUE

\* do_full_scan, as decided from the sample statistics.
do_full_scan(force_full_scan, sample_unique_count, sample_len, total_pixels, t) ==
    \/ force_full_scan
    \/ /\ \/ sample_unique_count <= t.UNIQUE_THRESHOLD
          \/ RatioAtMost(sample_unique_count, sample_len, t.UNIQUE_RATIO_THRESHOLD)
       /\ total_pixels <= t.FULL_SCAN_PIXEL_LIMIT

\* A variant that compares with >=.
TooManyAtLeast(n_vals, max_unique_error) ==
    max_unique_error # None /\ n_vals >= max_unique_error[1]

\* max_unique_error is not None and len(vals) > max_unique_error
TooMany(n_vals, max_unique_error) ==
    max_unique_error # None /\ n_vals > max_unique_error[1]

\* A variant that appends to the palette instead of replacing it.
FullScanExtends(im, cur, max_unique_error) ==
    LET vals == NpUnique(MaskedRgb(im.px))
    IN IF max_unique_error # None /\ Len(vals) > max_unique_error[1]
       THEN [raised |-> ValueError, colors |-> cur]
       ELSE [raised |-> NoError, colors |-> cur \o Mapping(vals)]

\* A variant that installs the palette before it checks the cap.
FullScanInstallsFirst(im, cur, max_unique_error) ==
    LET vals == NpUnique(MaskedRgb(im.px))
    IN IF TooMany(Len(vals), max_unique_error)
       THEN [raised |-> ValueError, colors |-> Mapping(vals)]
       ELSE [raised |-> NoError, colors |-> Mapping(vals)]

\* The full-resolution branch: [raised, colors].
FullScan(im, cur, max_unique_error) ==
    LET vals == NpUnique(MaskedRgb(im.px))
    IN IF TooMany(Len(vals), max_unique_error)
       THEN [raised |-> ValueError, colors |-> cur]
       ELSE [raised |-> NoError, colors |-> Mapping(vals)]

\* The outcomes of from_image_max(img, force_full_scan=..., <thresholds t>,
\* max_unique_error=...) on a palette holding cur: [raised, colors, sample].
from_image_max(im, cur, force_full_scan, t, max_unique_error) ==
    LET total_pixels == Len(MaskedRgb(im.px))
    IN IF total_pixels = 0
       THEN {[raised |-> NoError, colors |-> <<>>, sample |-> <<>>]}
       ELSE {LET sample_pixels == MaskedRgb(sample.px)
                 seen == IF NeedsResize(im, t.MAX_SAMPLE_DIM) THEN sample.px ELSE <<>>
                 sample_unique_count == Len(NpUnique(sample_pixels))
             IN IF sample_pixels = <<>>
                THEN [raised |-> NoError, colors |-> <<>>, sample |-> seen]
                ELSE IF do_full_scan(force_full_scan, sample_unique_count,
                                     Len(sample_pixels), total_pixels, t)
                THEN LET r == FullScan(im, cur, max_unique_error)
                     IN [raised |-> r.raised, colors |-> r.colors, sample |-> seen]
                ELSE [raised |-> NoError, colors |-> Mapping(NpUnique(sample_pixels)),
                      sample |-> seen]
             : sample \in Samples(im, t.MAX_SAMPLE_DIM)}

----------------------------------------------------------------------------
(* The palette engine as a state machine.  A session holds an image, a set *)
(* of thresholds and a palette; one of the builders or the estimator is    *)
(* called on it, with any arguments (op = "init": no call made yet).       *)

Thresholds ==
    [MAX_SAMPLE_DIM : {1, 2},
     FULL_SCAN_PIXEL_LIMIT : {2, 4},
     UNIQUE_THRESHOLD : {1, 2},
     UNIQUE_RATIO_THRESHOLD : {<<1, 20>>, <<1, 2>>}]

\* max_dim, the working-dimension cap handed to from_image_quant.
QuantDims == {1, 2}

\* Target counts: non-positive, in range, and beyond the quantizer's range.
NChoices == {0 - 1, 0, 1, 2, QUANT_MAX_COLORS + 1}

\* max_unique_error: absent, or a cap.
CapChoices == {None} \cup {Some(m) : m \in 0..1}

NoArgs ==
    [n |-> 0, max_dim |-> 0, force_full_scan |-> FALSE, max_unique_error |-> None,
     sample |-> <<>>, before |-> <<>>]

\* The call record of an operation called on a palette holding cur:
\* `before` is the palette as it was when the call was made.
Call(cur) == [NoArgs EXCEPT !.before = cur]

\* Palettes a session can hold when a builder is called: the empty one of a
\* new Palette; one manually added color (add_color); the palette built of
\* the example image, its second entry disabled (toggle_enabled).
PriorPalettes ==
    { <<>>,
      <<Entry(Mix, 0)>>,
      <<Entry(Red, 2), [Entry(Green, 1) EXCEPT !.enabled = FALSE]>> }

Init ==
    /\ img \in Images
    /\ thr \in Thresholds
    /\ colors \in PriorPalettes
    /\ op = "init"
    /\ args = NoArgs
    /\ raised = NoError
    /\ ret = <<>>
    /\ markers = <<>>
    /\ settings_file = NoFile

FromImageQuant ==
    /\ op = "init"
    /\ \E n \in NChoices, max_dim \in QuantDims :
        \E o \in from_image_quant(img, n, max_dim, colors) :
            /\ colors' = o.colors
            /\ op' = "from_image_quant"
            /\ args' = [Call(colors) EXCEPT !.n = n, !.max_dim = max_dim, !.sample = o.sample]
            /\ raised' = o.raised
            /\ ret' = <<>>
            /\ UNCHANGED <<settings_file, img, thr, markers>>

FromImageMax ==
    /\ op = "init"
    /\ \E force \in BOOLEAN, m \in CapChoices :
        \E o \in from_image_max(img, colors, force, thr, m) :
            /\ colors' = o.colors
            /\ op' = "from_image_max"
            /\ args' = [Call(colors) EXCEPT !.force_full_scan = force,
                                      !.max_unique_error = m,
                                      !.sample = o.sample]
            /\ raised' = o.raised
            /\ ret' = <<>>
            /\ UNCHANGED <<settings_file, img, thr, markers>>

EstimateUniqueStats ==
    /\ op = "init"
    /\ \E o \in estimate_unique_stats(img, thr.MAX_SAMPLE_DIM) :
        /\ op' = "estimate_unique_stats"
        /\ args' = [Call(colors) EXCEPT !.sample = o.sample]
        /\ raised' = NoError
        /\ ret' = o.ret
        /\ UNCHANGED <<settings_file, img, thr, colors, markers>>

Next == FromImageQuant \/ FromImageMax \/ EstimateUniqueStats

Spec == Init /\ [][Next]_vars

----------------------------------------------------------------------------
(* The color codec as a state machine: an input is drawn, rgb_to_hex is    *)
(* applied to a triple and hex_to_rgb to a string (a drawn one, or the one *)
(* rgb_to_hex returned).                                                   *)

\* The defaults of the Palette class.
PaletteDefaults ==
    [MAX_SAMPLE_DIM |-> 1200,
     FULL_SCAN_PIXEL_LIMIT |-> 6000000,
     UNIQUE_THRESHOLD |-> 2048,
     UNIQUE_RATIO_THRESHOLD |-> <<1, 20>>]

Channels == 0..255
EdgeChannels == {0, 15, 16, 255}

\* The triples handed to rgb_to_hex: one channel runs through every 8-bit
\* value while the two others take the edge values; and the Universe.
RgbInputs ==
    Universe
    \cup {<<a, b, c>> : a \in Channels, b \in EdgeChannels, c \in EdgeChannels}
    \cup {<<b, a, c>> : a \in Channels, b \in EdgeChannels, c \in EdgeChannels}
    \cup {<<b, c, a>> : a \in Channels, b \in EdgeChannels, c \in EdgeChannels}

\* The characters of the strings handed to hex_to_rgb: the hash, a blank, a
\* decimal digit, a lower-case hex digit, a letter that is no hex digit, a
\* sign.
HexAlphabet == {"#", " ", "1", "f", "G", "-"}

HexInputs == UNION {[1..k -> HexAlphabet] : k \in 0..MaxHexLen}

CodecInit ==
    /\ img = ExampleImage
    /\ thr = PaletteDefaults
    /\ colors = <<>>
    /\ op = "init"
    /\ args \in {[kind |-> "rgb", rgb |-> t, hexstr |-> <<>>] : t \in RgbInputs}
               \cup {[kind |-> "hexstr", rgb |-> <<>>, hexstr |-> h] : h \in HexInputs}
    /\ raised = NoError
    /\ ret = [hex |-> <<>>, rgb |-> <<>>]
    /\ markers = <<>>
    /\ settings_file = NoFile

RgbToHex ==
    /\ op = "init"
    /\ args.kind = "rgb"
    /\ op' = "rgb_to_hex"
    /\ ret' = [ret EXCEPT !.hex = rgb_to_hex(args.rgb)]
    /\ raised' = NoError
    /\ UNCHANGED <<settings_file, img, thr, colors, args, markers>>

HexToRgb ==
    /\ \/ op = "init" /\ args.kind = "hexstr"
       \/ op = "rgb_to_hex"
    /\ LET r == hex_to_rgb(IF args.kind = "hexstr" THEN args.hexstr ELSE ret.hex)
       IN /\ raised' = r.raised
          /\ ret' = [ret EXCEPT !.rgb = r.value]
    /\ op' = "hex_to_rgb"
    /\ UNCHANGED <<settings_file, img, thr, colors, args, markers>>

CodecNext == RgbToHex \/ HexToRgb

SpecCodec == CodecInit /\ [][CodecNext]_vars

----------------------------------------------------------------------------
(* What the claims speak of, stated on the pixels themselves.              *)

OpaqueIdx(px) == {i \in 1..Len(px) : px[i].a > 0}

\* The distinct RGB triples of the pixels with alpha > 0.
DistinctOpaque(px) == {px[i].rgb : i \in OpaqueIdx(px)}

\* The number of pixels with alpha > 0 that have color c.
PixelCount(px, c) == Cardinality({i \in OpaqueIdx(px) : px[i].rgb = c})

NonIncreasingCounts(cs) ==
    \A i \in 1..Len(cs) : \A j \in 1..Len(cs) : i < j => cs[i].count >= cs[j].count

RECURSIVE SumCounts(_)
SumCounts(cs) == IF cs = <<>> THEN 0 ELSE Head(cs).count + SumCounts(Tail(cs))

\* cs holds one entry per distinct opaque color of px, each with its number
\* of occurrences in px, most frequent first.
IsExactPalette(cs, px) ==
    /\ Len(cs) = Cardinality(DistinctOpaque(px))
    /\ \A c \in DistinctOpaque(px) :
          \E i \in 1..Len(cs) : cs[i].rgb = c /\ cs[i].count = PixelCount(px, c)
    /\ \A i \in 1..Len(cs) : cs[i].rgb \in DistinctOpaque(px) /\ cs[i].enabled
    /\ NonIncreasingCounts(cs)

\* The pixels of the sample the last from_image_max or estimate_unique_stats
\* call worked on: those the resize delivered, or the image's own.
SamplePx == IF NeedsResize(img, thr.MAX_SAMPLE_DIM) THEN args.sample ELSE img.px

\* The conditions of the exact full-resolution scan: the sample has an
\* opaque pixel, and the scan is forced or the sample statistics admit it.
FullScanAdmitted ==
    LET su == Cardinality(DistinctOpaque(SamplePx))
        sp == Cardinality(OpaqueIdx(SamplePx))
    IN /\ OpaqueIdx(img.px) # {}
       /\ sp > 0
       /\ \/ args.force_full_scan
          \/ /\ \/ su <= thr.UNIQUE_THRESHOLD
                \/ su * thr.UNIQUE_RATIO_THRESHOLD[2] <= thr.UNIQUE_RATIO_THRESHOLD[1] * sp
             /\ Cardinality(OpaqueIdx(img.px)) <= thr.FULL_SCAN_PIXEL_LIMIT

----------------------------------------------------------------------------
C2_FailureLeavesPalette ==
    (op = "from_image_max" /\ raised = ValueError) => colors = args.before

\* A failed call on a palette that held entries, which it still holds.
C2_Witness ==
    /\ op = "from_image_max"
    /\ raised = ValueError
    /\ args.before # <<>>
    /\ colors = args.before

\* A from_image_max call without force_full_scan and without
\* max_unique_error, on an image whose k distinct opaque colors are at most
\* UNIQUE_THRESHOLD and whose opaque pixels are fewer than
\* FULL_SCAN_PIXEL_LIMIT.
C3_Case ==
    /\ op = "from_image_max"
    /\ ~args.force_full_scan
    /\ args.max_unique_error = None
    /\ Cardinality(DistinctOpaque(img.px)) <= thr.UNIQUE_THRESHOLD
    /\ Cardinality(OpaqueIdx(img.px)) < thr.FULL_SCAN_PIXEL_LIMIT

\* The palette is the exact one of the full-resolution image.
C3_Exact ==
    /\ raised = NoError
    /\ IsExactPalette(colors, img.px)
    /\ SumCounts(colors) = Cardinality(OpaqueIdx(img.px))

(* C3.  As claimed: for every image with k distinct opaque colors, fewer   *)
(* opaque pixels than FULL_SCAN_PIXEL_LIMIT and k <= UNIQUE_THRESHOLD,     *)
(* from_image_max (no force_full_scan, no max_unique_error) leaves exactly *)
(* k entries, one per distinct opaque color with its exact count, the      *)
(* counts summing to the number of opaque pixels, in descending count      *)
(* order.                                                                  *)
C3_ExactForEveryImage == C3_Case => C3_Exact

(* C3, amended.  The same, for every such image whose larger dimension     *)
(* does not exceed MAX_SAMPLE_DIM (so that the sample is the image).       *)
C3_ExactWhenNotResized ==
    (C3_Case /\ ~NeedsResize(img, thr.MAX_SAMPLE_DIM)) => C3_Exact

\* The example scenario: red, red, green, transparent yields (255,0,0) with
\* count 2, then (0,255,0) with count 1.
C3_Witness ==
    /\ C3_Case
    /\ img = ExampleImage
    /\ ~NeedsResize(img, thr.MAX_SAMPLE_DIM)
    /\ colors = << [rgb |-> <<255, 0, 0>>, hex |-> <<"#", "F", "F", "0", "0", "0", "0">>,
                    count |-> 2, enabled |-> TRUE],
                   [rgb |-> <<0, 255, 0>>, hex |-> <<"#", "0", "0", "F", "F", "0", "0">>,
                    count |-> 1, enabled |-> TRUE] >>

(* C4.  Whenever force_full_scan is set and the full-resolution image has  *)
(* an opaque pixel, from_image_max takes the exact full-scan path whatever *)
(* the sample statistics and thresholds: it fails with the too-many-colors *)
(* ValueError or installs one entry per distinct opaque full-resolution    *)
(* color with its exact count.                                             *)
C4_ForcedScanIsExact ==
    (op = "from_image_max" /\ args.force_full_scan /\ OpaqueIdx(img.px) # {}) =>
        \/ raised = ValueError
        \/ raised = NoError /\ IsExactPalette(colors, img.px)

(* C5.  For every image and every n > 0, from_image_quant leaves a palette *)
(* with at most n entries, each with count >= 0, in non-increasing count   *)
(* order.                                                                  *)
C5_QuantAtMostN ==
    (op = "from_image_quant" /\ args.n > 0) =>
        /\ raised = NoError
        /\ Len(colors) <= args.n
        /\ \A i \in 1..Len(colors) : colors[i].count >= 0
        /\ NonIncreasingCounts(colors)

(* C6.  For every image and every n <= 0, from_image_quant raises no error *)
(* and leaves the palette empty, whatever the palette held before.         *)
C6_QuantNonPositiveEmpties ==
    (op = "from_image_quant" /\ args.n <= 0) => (raised = NoError /\ colors = <<>>)

\* A call with n = -1 on a palette that held entries, on an image that has
\* opaque pixels.
C6_Witness ==
    /\ op = "from_image_quant"
    /\ args.n = 0 - 1
    /\ args.before # <<>>
    /\ OpaqueIdx(img.px) # {}
    /\ colors = <<>>

(* C7.  For every image in which every pixel has alpha = 0:                *)
(* from_image_quant (any n) and from_image_max (any options) leave an      *)
(* empty palette without error, and estimate_unique_stats returns          *)
(* (0, 0, 0).                                                              *)
C7_TransparentImage ==
    OpaqueIdx(img.px) = {} =>
        /\ op \in {"from_image_quant", "from_image_max"} =>
              (raised = NoError /\ colors = <<>>)
        /\ op = "estimate_unique_stats" => (raised = NoError /\ ret = <<0, 0, 0>>)

\* A fully transparent image of two pixels, resized by from_image_quant
\* called with a target count beyond the quantizer's range.
C7_Witness ==
    /\ OpaqueIdx(img.px) = {}
    /\ Len(img.px) = 2
    /\ op = "from_image_quant"
    /\ args.n > QUANT_MAX_COLORS
    /\ args.sample # <<>>
    /\ colors = <<>>

(* C8.  For every image whose larger dimension does not exceed             *)
(* MAX_SAMPLE_DIM, estimate_unique_stats returns (d, p, p): p the number   *)
(* of pixels with alpha > 0, d the number of distinct RGB triples among    *)
(* them; pixels with alpha = 0 contribute to neither.                      *)
C8_StatsOfUnsampledImage ==
    (op = "estimate_unique_stats" /\ ~NeedsResize(img, thr.MAX_SAMPLE_DIM)) =>
        /\ raised = NoError
        /\ ret = << Cardinality(DistinctOpaque(img.px)),
                    Cardinality(OpaqueIdx(img.px)),
                    Cardinality(OpaqueIdx(img.px)) >>

\* The example scenario: red, red, green, transparent gives (2, 3, 3).
C8_Witness ==
    /\ op = "estimate_unique_stats"
    /\ img = ExampleImage
    /\ ~NeedsResize(img, thr.MAX_SAMPLE_DIM)
    /\ ret = <<2, 3, 3>>

----------------------------------------------------------------------------
(* Claims on the color codec (SpecCodec).                                  *)

IsUpperHexDigit(c) == \E k \in 1..16 : UpperDigits[k] = c

(* C9.  Round trip: for every triple rgb of integers in 0..255,            *)
(* rgb_to_hex(rgb) is a 7-character string, '#' followed by six upper-case *)
(* hex digits, and hex_to_rgb of it returns rgb.                           *)
C9_RoundTrip ==
    /\ (op = "rgb_to_hex") =>
          /\ Len(ret.hex) = 7
          /\ ret.hex[1] = "#"
          /\ \A i \in 2..7 : IsUpperHexDigit(ret.hex[i])
    /\ (op = "hex_to_rgb" /\ args.kind = "rgb") =>
          (raised = NoError /\ ret.rgb = args.rgb)

\* (10, 20, 30) went to "#0A141E" and came back.
C9_Witness ==
    /\ op = "hex_to_rgb"
    /\ args.kind = "rgb"
    /\ args.rgb = <<10, 20, 30>>
    /\ ret.hex = <<"#", "0", "A", "1", "4", "1", "E">>
    /\ ret.rgb = <<10, 20, 30>>

\* What is left of a string once its surrounding whitespace and one
\* leading '#' are stripped.
StrippedOfHash(h) ==
    LET s == Strip(h)
    IN IF s # <<>> /\ Head(s) = "#" THEN Tail(s) ELSE s

AtLeastSixHexDigits(s) ==
    Len(s) >= 6 /\ \A i \in 1..6 : IsHexDigit(s[i])

(* C10.  hex_to_rgb fails with a ValueError for every input string that,   *)
(* after stripping surrounding whitespace and a leading '#', is not at     *)
(* least 6 hex digits; it never returns a triple for such an input.        *)
C10_ShortInputFails ==
    (op = "hex_to_rgb" /\ args.kind = "hexstr"
        /\ ~AtLeastSixHexDigits(StrippedOfHash(args.hexstr))) =>
        raised = ValueError

----------------------------------------------------------------------------
(* Palette.sort and its keys.  A key that is a float in the source (hue,   *)
(* saturation, value, luminance) is the pair <<num, den>> of the exact     *)
(* quotient, den > 0; keys are compared exactly.                           *)

Max3(rgb) == Max(rgb[1], Max(rgb[2], rgb[3]))
Min3(rgb) == Min(rgb[1], Min(rgb[2], rgb[3]))

\* colorsys.rgb_to_hsv(r/255, g/255, b/255): <<h, s, v>>.
hsv(rgb) ==
    LET maxc == Max3(rgb)
        minc == Min3(rgb)
        rangec == maxc - minc
        h6 == IF rgb[1] = maxc THEN rgb[2] - rgb[3]
              ELSE IF rgb[2] = maxc THEN 2 * rangec + rgb[3] - rgb[1]
              ELSE 4 * rangec + rgb[1] - rgb[2]
    IN IF minc = maxc
       THEN << <<0, 1>>, <<0, 1>>, <<maxc, 255>> >>
       ELSE << <<h6 % (6 * rangec), 6 * rangec>>, <<rangec, maxc>>, <<maxc, 255>> >>

\* relative_luminance(rgb) = 0.2126*r/255 + 0.7152*g/255 + 0.0722*b/255.
relative_luminance(rgb) ==
    <<2126 * rgb[1] + 7152 * rgb[2] + 722 * rgb[3], 2550000>>

\* a <= b for two such quotients.
RatLE(a, b) == IF a[2] = b[2] THEN a[1] <= b[1] ELSE a[1] * b[2] <= b[1] * a[2]

\* The order of Python strings: by code point, a proper prefix first.  Of
\* the characters of a hex value '#' is the least, then the digits, then
\* the upper-case letters.
CharRank(c) ==
    IF c = "#" THEN 0 ELSE CHOOSE k \in 1..16 : UpperDigits[k] = c

RECURSIVE StrLE(_, _)
StrLE(a, b) ==
    IF a = <<>> THEN TRUE
    ELSE IF b = <<>> THEN FALSE
    ELSE IF Head(a) = Head(b) THEN StrLE(Tail(a), Tail(b))
    ELSE CharRank(Head(a)) < CharRank(Head(b))

Modes == {"frequency", "hue", "saturation", "value", "luminance", "hex", "other"}

\* key(a) <= key(b) for the key function sort selects for `mode`.
KeyLE(mode, a, b) ==
    CASE mode = "frequency"  -> (0 - a.count) <= (0 - b.count)
      [] mode = "hue"        -> RatLE(hsv(a.rgb)[1], hsv(b.rgb)[1])
      [] mode = "saturation" -> RatLE(hsv(a.rgb)[2], hsv(b.rgb)[2])
      [] mode = "value"      -> RatLE(hsv(a.rgb)[3], hsv(b.rgb)[3])
      [] mode = "luminance"  -> RatLE(relative_luminance(a.rgb), relative_luminance(b.rgb))
      [] mode = "hex"        -> StrLE(a.hex, b.hex)
      [] OTHER               -> TRUE

\* A variant that sorts like list.sort(key=key, reverse=True) would not:
\* it puts an entry behind the entries of greater key only (descending).
InsertByKeyDesc(sorted, e, mode) ==
    LET k == Cardinality({i \in 1..Len(sorted) : ~KeyLE(mode, sorted[i], e)})
    IN SubSeq(sorted, 1, k) \o <<e>> \o SubSeq(sorted, k + 1, Len(sorted))

\* A variant that is ascending but not stable: an entry goes in front of the
\* entries whose key equals its own.
InsertByKeyBeforeEqual(sorted, e, mode) ==
    LET k == Cardinality({i \in 1..Len(sorted) : ~KeyLE(mode, e, sorted[i])})
    IN SubSeq(sorted, 1, k) \o <<e>> \o SubSeq(sorted, k + 1, Len(sorted))

\* list.sort(key=key), one insertion at a time: ascending and stable, an
\* entry goes behind the entries whose key is less than or equal to its own.
InsertByKey(sorted, e, mode) ==
    LET k == Cardinality({i \in 1..Len(sorted) : KeyLE(mode, sorted[i], e)})
    IN SubSeq(sorted, 1, k) \o <<e>> \o SubSeq(sorted, k + 1, Len(sorted))

\* A variant that keeps one entry per key: an entry whose key is already
\* placed is dropped.
RECURSIVE SortByKeyDistinct(_, _)
SortByKeyDistinct(s, mode) ==
    IF s = <<>> THEN <<>>
    ELSE LET placed == SortByKeyDistinct(SubSeq(s, 1, Len(s) - 1), mode)
             e == s[Len(s)]
         IN IF \E i \in 1..Len(placed) :
                   KeyLE(mode, placed[i], e) /\ KeyLE(mode, e, placed[i])
            THEN placed
            ELSE InsertByKey(placed, e, mode)

RECURSIVE SortByKey(_, _)
SortByKey(s, mode) ==
    IF s = <<>> THEN <<>>
    ELSE InsertByKey(SortByKey(SubSeq(s, 1, Len(s) - 1), mode), s[Len(s)], mode)

\* [c for c in self.colors if c.get('enabled', True) == flag]
Partition(cs, flag) == SelectSeq(cs, LAMBDA c : c.enabled = flag)

\* A variant that puts the enabled entries first.
sort_enabled_first(cs, mode, disabled_to_top) ==
    IF disabled_to_top
    THEN SortByKey(Partition(cs, TRUE), mode) \o SortByKey(Partition(cs, FALSE), mode)
    ELSE SortByKey(cs, mode)

\* Palette.sort(mode, disabled_to_top): the new value of self.colors.
sort(cs, mode, disabled_to_top) ==
    IF disabled_to_top
    THEN SortByKey(Partition(cs, FALSE), mode) \o SortByKey(Partition(cs, TRUE), mode)
    ELSE SortByKey(cs, mode)

----------------------------------------------------------------------------
(* Palette.toggle_enabled, add_color, remove_color, hex_list.  An index is *)
(* Python's: 0 is the first entry.                                         *)

InBounds(cs, index) == 0 <= index /\ index < Len(cs)

\* A variant that also resets the count of the toggled entry.
toggle_enabled_resets_count(cs, index) ==
    IF InBounds(cs, index)
    THEN [cs EXCEPT ![index + 1] = [@ EXCEPT !.enabled = ~@, !.count = 0]]
    ELSE cs

toggle_enabled(cs, index) ==
    IF InBounds(cs, index)
    THEN [cs EXCEPT ![index + 1].enabled = ~@]
    ELSE cs

\* A variant that skips a color the palette already holds.
add_color_dedup(cs, rgb) ==
    IF \E i \in 1..Len(cs) : cs[i].rgb = rgb THEN cs ELSE Append(cs, Entry(rgb, 0))

add_color(cs, rgb) == Append(cs, Entry(rgb, 0))

\* A variant that takes a negative index from the end, as list.pop does.
remove_color_from_end(cs, index) ==
    LET i == IF index < 0 THEN Len(cs) + index ELSE index
    IN IF InBounds(cs, i)
       THEN SubSeq(cs, 1, i) \o SubSeq(cs, i + 2, Len(cs))
       ELSE cs

remove_color(cs, index) ==
    IF InBounds(cs, index)
    THEN SubSeq(cs, 1, index) \o SubSeq(cs, index + 2, Len(cs))
    ELSE cs

\* A variant that ignores enabled_only.
hex_list_all(cs, enabled_only) == [i \in 1..Len(cs) |-> cs[i].hex]

hex_list(cs, enabled_only) ==
    LET kept == SelectSeq(cs, LAMBDA c : c.enabled \/ ~enabled_only)
    IN [i \in 1..Len(kept) |-> kept[i].hex]

----------------------------------------------------------------------------
(* The palette container as a state machine: a Palette built empty, on     *)
(* which the builders (on the example image, with the class defaults) and  *)
(* the container operations are called in any order.                       *)

MAX_QUANT_DIM == 800

Grey == <<128, 128, 128>>

\* The colors handed to add_color: one no builder delivers, one the example
\* image holds, one the quantizer can deliver.
AddChoices == {Grey, Red, Mix}

\* The indices handed to toggle_enabled and remove_color on a palette of
\* length len: every valid one, -1 and len.
IndexChoices(len) == (0 - 1)..len

NoPaletteArgs ==
    [before |-> <<>>, mode |-> "", disabled_to_top |-> FALSE, index |-> 0,
     rgb |-> <<>>, enabled_only |-> FALSE, n |-> 0]

PaletteCall(cur) == [NoPaletteArgs EXCEPT !.before = cur]

PaletteInit ==
    /\ img = ExampleImage
    /\ thr = PaletteDefaults
    /\ colors = <<>>
    /\ op = "init"
    /\ args = NoPaletteArgs
    /\ raised = NoError
    /\ ret = <<>>
    /\ markers = <<>>
    /\ settings_file = NoFile

\* No call is in progress: the palette was just built, or the last call
\* has returned to its caller.
AtRest == op \in {"init", "idle"}

PaletteFromImageQuant ==
    /\ AtRest
    /\ \E n \in {1, 2} :
        \E o \in from_image_quant(img, n, MAX_QUANT_DIM, colors) :
            /\ op' = "from_image_quant"
            /\ args' = [PaletteCall(colors) EXCEPT !.n = n]
            /\ colors' = o.colors
            /\ raised' = o.raised
            /\ ret' = <<>>
            /\ UNCHANGED <<settings_file, img, thr, markers>>

PaletteFromImageMax ==
    /\ AtRest
    /\ \E o \in from_image_max(img, colors, FALSE, thr, None) :
        /\ op' = "from_image_max"
        /\ args' = PaletteCall(colors)
        /\ colors' = o.colors
        /\ raised' = o.raised
        /\ ret' = <<>>
        /\ UNCHANGED <<settings_file, img, thr, markers>>

Sort ==
    /\ AtRest
    /\ \E mode \in Modes, disabled_to_top \in BOOLEAN :
        /\ op' = "sort"
        /\ args' = [PaletteCall(colors) EXCEPT !.mode = mode,
                                               !.disabled_to_top = disabled_to_top]
        /\ colors' = sort(colors, mode, disabled_to_top)
        /\ raised' = NoError
        /\ ret' = <<>>
        /\ UNCHANGED <<settings_file, img, thr, markers>>

ToggleEnabled ==
    /\ AtRest
    /\ \E index \in IndexChoices(Len(colors)) :
        /\ op' = "toggle_enabled"
        /\ args' = [PaletteCall(colors) EXCEPT !.index = index]
        /\ colors' = toggle_enabled(colors, index)
        /\ raised' = NoError
        /\ ret' = <<>>
        /\ UNCHANGED <<settings_file, img, thr, markers>>

AddColor ==
    /\ AtRest
    /\ Len(colors) < MaxLen
    /\ \E rgb \in AddChoices :
        /\ op' = "add_color"
        /\ args' = [PaletteCall(colors) EXCEPT !.rgb = rgb]
        /\ colors' = add_color(colors, rgb)
        /\ raised' = NoError
        /\ ret' = <<>>
        /\ UNCHANGED <<settings_file, img, thr, markers>>

RemoveColor ==
    /\ AtRest
    /\ \E index \in IndexChoices(Len(colors)) :
        /\ op' = "remove_color"
        /\ args' = [PaletteCall(colors) EXCEPT !.index = index]
        /\ colors' = remove_color(colors, index)
        /\ raised' = NoError
        /\ ret' = <<>>
        /\ UNCHANGED <<settings_file, img, thr, markers>>

HexList ==
    /\ AtRest
    /\ \E enabled_only \in BOOLEAN :
        /\ op' = "hex_list"
        /\ args' = [PaletteCall(colors) EXCEPT !.enabled_only = enabled_only]
        /\ ret' = hex_list(colors, enabled_only)
        /\ raised' = NoError
        /\ UNCHANGED <<settings_file, img, thr, colors, markers>>

\* The call returns to its caller: its record is dropped.
Return ==
    /\ ~AtRest
    /\ op' = "idle"
    /\ args' = NoPaletteArgs
    /\ raised' = NoError
    /\ ret' = <<>>
    /\ UNCHANGED <<settings_file, img, thr, colors, markers>>

PaletteNext ==
    \/ PaletteFromImageQuant
    \/ PaletteFromImageMax
    \/ Sort
    \/ ToggleEnabled
    \/ AddColor
    \/ RemoveColor
    \/ HexList
    \/ Return

SpecPalette == PaletteInit /\ [][PaletteNext]_vars

----------------------------------------------------------------------------
(* Claims on the palette container (SpecPalette).                          *)

\* a <= b in lexicographic order: a is a prefix of b, or at the first
\* position where they differ a has the lesser character.
LexLE(a, b) ==
    \/ Len(a) <= Len(b) /\ \A i \in 1..Len(a) : a[i] = b[i]
    \/ \E k \in 1..Min(Len(a), Len(b)) :
          /\ \A i \in 1..(k - 1) : a[i] = b[i]
          /\ CharRank(a[k]) < CharRank(b[k])

HexNonDecreasing(cs) ==
    \A i \in 1..Len(cs) : \A j \in 1..Len(cs) : i < j => LexLE(cs[i].hex, cs[j].hex)

(* C11.  After sort with mode = 'hex' and disabled_to_top = false, for any *)
(* prior palette contents, the hex values of the entries in container      *)
(* order form a lexicographically non-decreasing sequence.                 *)
C11_HexSortNonDecreasing ==
    (op = "sort" /\ args.mode = "hex" /\ ~args.disabled_to_top) =>
        HexNonDecreasing(colors)

\* A hex sort of three entries that were not in hex order.
C11_Witness ==
    /\ op = "sort"
    /\ args.mode = "hex"
    /\ ~args.disabled_to_top
    /\ Len(args.before) = 3
    /\ ~HexNonDecreasing(args.before)
    /\ HexNonDecreasing(colors)

\* Every disabled entry precedes every enabled one.
DisabledFirst(cs) ==
    \A i \in 1..Len(cs) : \A j \in 1..Len(cs) :
        (i < j /\ cs[i].enabled) => cs[j].enabled

\* Entries that are both enabled or both disabled are in non-decreasing
\* order of the key of `mode`.
PartitionsInKeyOrder(cs, mode) ==
    \A i \in 1..Len(cs) : \A j \in 1..Len(cs) :
        (i < j /\ cs[i].enabled = cs[j].enabled) => KeyLE(mode, cs[i], cs[j])

(* C12.  After sort with disabled_to_top = true, for every mode and any    *)
(* prior contents: every entry with enabled = false precedes every entry   *)
(* with enabled = true, and within each of the two partitions the entries  *)
(* are in non-decreasing order of the requested key (frequency: descending *)
(* count; hue, saturation, value; luminance; hex).                         *)
C12_DisabledToTop ==
    (op = "sort" /\ args.disabled_to_top) =>
        /\ DisabledFirst(colors)
        /\ PartitionsInKeyOrder(colors, args.mode)
        /\ args.mode = "frequency" =>
              \A i \in 1..Len(colors) : \A j \in 1..Len(colors) :
                  (i < j /\ colors[i].enabled = colors[j].enabled)
                      => colors[i].count >= colors[j].count

\* A hue sort that moved a disabled entry in front of two enabled entries
\* and put those two in hue order.
C12_Witness ==
    /\ op = "sort"
    /\ args.disabled_to_top
    /\ args.mode = "hue"
    /\ Len(colors) = 3
    /\ ~DisabledFirst(args.before)
    /\ ~PartitionsInKeyOrder(args.before, "hue")
    /\ ~colors[1].enabled /\ colors[2].enabled /\ colors[3].enabled

(* C13.  add_color(rgb) on any palette appends exactly one entry at the    *)
(* end with that rgb, hex = rgb_to_hex(rgb), count = 0 and enabled = true, *)
(* leaves every earlier entry and its position unchanged, even when an     *)
(* entry with the same rgb exists already; and hex_list(enabled_only=True) *)
(* on the palette add_color((10,20,30)) makes of an empty one returns      *)
(* ["#0A141E"].                                                            *)
C13_AddColorAppends ==
    /\ op = "add_color" =>
          /\ Len(colors) = Len(args.before) + 1
          /\ SubSeq(colors, 1, Len(args.before)) = args.before
          /\ colors[Len(colors)] =
                [rgb |-> args.rgb, hex |-> rgb_to_hex(args.rgb),
                 count |-> 0, enabled |-> TRUE]
    /\ (op = "hex_list" /\ args.enabled_only
          /\ colors = << [rgb |-> <<10, 20, 30>>,
                          hex |-> <<"#", "0", "A", "1", "4", "1", "E">>,
                          count |-> 0, enabled |-> TRUE] >>) =>
          ret = << <<"#", "0", "A", "1", "4", "1", "E">> >>

\* add_color of a color the palette holds already.
C13_Witness ==
    /\ op = "add_color"
    /\ \E i \in 1..Len(args.before) : args.before[i].rgb = args.rgb
    /\ Len(colors) = Len(args.before) + 1
    /\ colors[Len(colors)].rgb = args.rgb

\* The indices of the entries hex_list keeps.
Kept(cs, enabled_only) == {i \in 1..Len(cs) : cs[i].enabled \/ ~enabled_only}

(* C14.  hex_list(enabled_only) returns the hex values of the entries in   *)
(* the container's current order: of exactly the entries with enabled =    *)
(* true when enabled_only is true, of all entries when it is false; it     *)
(* does not modify the palette.                                            *)
C14_HexListFilters ==
    op = "hex_list" =>
        /\ colors = args.before
        /\ Len(ret) = Cardinality(Kept(colors, args.enabled_only))
        /\ \A i \in Kept(colors, args.enabled_only) :
              ret[Cardinality({j \in Kept(colors, args.enabled_only) : j <= i})]
                  = colors[i].hex

\* hex_list(enabled_only=True) on a palette whose first entry is disabled
\* and whose two others are enabled.
C14_Witness ==
    /\ op = "hex_list"
    /\ args.enabled_only
    /\ Len(colors) = 3
    /\ ~colors[1].enabled /\ colors[2].enabled /\ colors[3].enabled
    /\ ret = <<colors[2].hex, colors[3].hex>>

(* C15.  remove_color(index): for index < 0 or index >= length the palette *)
(* is unchanged and no error is raised; for 0 <= index < length the entry  *)
(* at that index is deleted, the length decreases by one, the entries      *)
(* before index keep their positions and those after it move down by one.  *)
C15_RemoveColor ==
    op = "remove_color" =>
        /\ raised = NoError
        /\ (args.index < 0 \/ args.index >= Len(args.before)) => colors = args.before
        /\ (0 <= args.index /\ args.index < Len(args.before)) =>
              /\ Len(colors) = Len(args.before) - 1
              /\ \A i \in 1..args.index : colors[i] = args.before[i]
              /\ \A i \in (args.index + 1)..Len(colors) : colors[i] = args.before[i + 1]

\* The middle entry of three distinct ones removed.
C15_Witness ==
    /\ op = "remove_color"
    /\ args.index = 1
    /\ Len(args.before) = 3
    /\ args.before[1] # args.before[2] /\ args.before[2] # args.before[3]
    /\ colors = <<args.before[1], args.before[3]>>

(* C16.  toggle_enabled(index): for index negative or >= length the        *)
(* palette is unchanged and no error is raised; for an in-bounds index     *)
(* only the enabled flag of that one entry is negated: its rgb, hex and    *)
(* count, every other entry, the length and the order are unchanged.       *)
C16_ToggleEnabled ==
    op = "toggle_enabled" =>
        /\ raised = NoError
        /\ Len(colors) = Len(args.before)
        /\ (args.index < 0 \/ args.index >= Len(args.before)) => colors = args.before
        /\ \A i \in 1..Len(colors) :
              /\ colors[i].rgb = args.before[i].rgb
              /\ colors[i].hex = args.before[i].hex
              /\ colors[i].count = args.before[i].count
              /\ colors[i].enabled =
                    (IF i = args.index + 1 THEN ~args.before[i].enabled
                                           ELSE args.before[i].enabled)

\* The second entry, built from the image with a positive count, toggled
\* to disabled.
C16_Witness ==
    /\ op = "toggle_enabled"
    /\ args.index = 1
    /\ Len(colors) >= 2
    /\ args.before[2].enabled
    /\ args.before[2].count > 0
    /\ ~colors[2].enabled

----------------------------------------------------------------------------
(* The application shell (src/src/app.py): the handlers that change the    *)
(* palette, and the markers.                                               *)

\* A product of two int16 values, as numpy keeps it in int16.
WrapInt16(v) == ((v + 32768) % 65536) - 32768

\* np.sum(diffs * diffs, axis=2) for one pixel and one palette color.
MarkerDist(pix, pal) ==
    WrapInt16((pix[1] - pal[1]) * (pix[1] - pal[1]))
    + WrapInt16((pix[2] - pal[2]) * (pix[2] - pal[2]))
    + WrapInt16((pix[3] - pal[3]) * (pix[3] - pal[3]))

\* np.argmin(dists): the first palette index (from 1) of least distance.
Nearest(pix, cs) ==
    CHOOSE i \in 1..Len(cs) :
        /\ \A j \in 1..Len(cs) : MarkerDist(pix, cs[i].rgb) <= MarkerDist(pix, cs[j].rgb)
        /\ \A j \in 1..(i - 1) : MarkerDist(pix, cs[j].rgb) > MarkerDist(pix, cs[i].rgb)

\* _pick_markers for an image no side of which exceeds max_dim = 420 (it
\* is not resampled) and which is displayed unscaled: the new value of
\* self.markers.  The
\* position of entry i is that of the first opaque pixel, in row-major
\* order, whose nearest palette color is entry i.
pick_markers(im, cs) ==
    IF im = None \/ cs = <<>> THEN <<>>
    ELSE LET opaque == {k \in 1..Len(im.px) : im.px[k].a > 0}
             claims(i) == {k \in opaque : Nearest(im.px[k].rgb, cs) = i}
             first(i) == CHOOSE k \in claims(i) : \A l \in claims(i) : k <= l
         IN [i \in 1..Len(cs) |->
                [rgb |-> cs[i].rgb,
                 pos |-> IF claims(i) = {} THEN None
                         ELSE Some(<<(first(i) - 1) % im.w, (first(i) - 1) \div im.w>>)]]

\* str.lower() on the characters of a target count.
LowerChar(c) ==
    CASE c = "M" -> "m" [] c = "A" -> "a" [] c = "X" -> "x" [] OTHER -> c

Lower(s) == [i \in 1..Len(s) |-> LowerChar(s[i])]

DecimalDigits == <<"0", "1", "2", "3", "4", "5", "6", "7", "8", "9">>

IsDecimalDigit(c) == \E k \in 1..10 : DecimalDigits[k] = c

RECURSIVE DecimalValue(_)
DecimalValue(d) ==
    IF d = <<>> THEN 0
    ELSE 10 * DecimalValue(SubSeq(d, 1, Len(d) - 1))
         + (CHOOSE k \in 1..10 : DecimalDigits[k] = d[Len(d)]) - 1

\* int(s): surrounding whitespace is dropped, one sign is accepted, and
\* what remains must be one or more decimal digits (the '_' separator is
\* not among the characters drawn).  None stands for the ValueError int
\* raises.
ParseInt10(s) ==
    LET t == Strip(s)
        neg == t # <<>> /\ Head(t) = "-"
        d == IF t # <<>> /\ Head(t) \in {"+", "-"} THEN Tail(t) ELSE t
    IN IF d = <<>> \/ \E i \in 1..Len(d) : ~IsDecimalDigit(d[i])
       THEN None
       ELSE Some(IF neg THEN 0 - DecimalValue(d) ELSE DecimalValue(d))

(* Python's float arithmetic on the estimate.  A positive float is          *)
(* [m, e]: m is its 53-bit significand as a sequence of bits, most         *)
(* significant first, and its value is m * 2^e.  Division and              *)
(* multiplication round to nearest, ties to even, as IEEE 754 binary64     *)
(* does.  Digits are produced and consumed nine bits at a time; the        *)
(* operands are less than 2^20.                                            *)
SignificandBits == 53
LimbBits == 9

RECURSIVE Pow2(_)
Pow2(k) == IF k = 0 THEN 1 ELSE 2 * Pow2(k - 1)

RECURSIVE BitsToInt(_)
BitsToInt(bits) ==
    IF bits = <<>> THEN 0
    ELSE 2 * BitsToInt(SubSeq(bits, 1, Len(bits) - 1)) + bits[Len(bits)]

\* The w binary digits of n < 2^w.
DigitBits(n, w) == [i \in 1..w |-> (n \div Pow2(w - i)) % 2]

\* bits without its leading zeros.
Trim(bits) ==
    IF \A i \in 1..Len(bits) : bits[i] = 0 THEN <<>>
    ELSE LET first == CHOOSE i \in 1..Len(bits) :
                          bits[i] = 1 /\ \A j \in 1..(i - 1) : bits[j] = 0
         IN SubSeq(bits, first, Len(bits))

\* bits + 1, for bits that are not all ones.
Increment(bits) ==
    LET z == CHOOSE i \in 1..Len(bits) :
                 bits[i] = 0 /\ \A j \in (i + 1)..Len(bits) : bits[j] = 1
    IN [i \in 1..Len(bits) |-> IF i < z THEN bits[i] ELSE IF i = z THEN 1 ELSE 0]

\* bits (more than n of them, the first one set) rounded to n bits, ties to
\* even; sticky says that nonzero digits follow bits.  [m, carry]: carry = 1
\* when the rounding carried into a new leading bit.
RoundBits(bits, n, sticky) ==
    LET kept == SubSeq(bits, 1, n)
        guard == bits[n + 1]
        rest == sticky \/ \E i \in (n + 2)..Len(bits) : bits[i] = 1
        up == guard = 1 /\ (rest \/ kept[n] = 1)
        all_ones == \A i \in 1..n : kept[i] = 1
    IN IF ~up THEN [m |-> kept, carry |-> 0]
       ELSE IF all_ones THEN [m |-> [i \in 1..n |-> IF i = 1 THEN 1 ELSE 0], carry |-> 1]
       ELSE [m |-> Increment(kept), carry |-> 0]

\* The next n binary digits of r / b behind the point (r < b), and what is
\* left.
RECURSIVE LongDivision(_, _, _)
LongDivision(r, b, n) ==
    IF n = 0 THEN [bits |-> <<>>, rem |-> r]
    ELSE LET w == IF n >= LimbBits THEN LimbBits ELSE n
             rest == LongDivision((r * Pow2(w)) % b, b, n - w)
         IN [bits |-> DigitBits((r * Pow2(w)) \div b, w) \o rest.bits,
             rem |-> rest.rem]

\* The p with 2^p <= t / s < 2^(p + 1), for t >= s (Up) and t < s (Down).
RECURSIVE ExponentUp(_, _)
ExponentUp(t, s) == IF 2 * s > t THEN 0 ELSE 1 + ExponentUp(t, 2 * s)

RECURSIVE ExponentDown(_, _)
ExponentDown(t, s) == IF t >= s THEN 0 ELSE ExponentDown(2 * t, s) - 1

\* t / s for integers t, s > 0.
float_div(t, s) ==
    LET p == IF t >= s THEN ExponentUp(t, s) ELSE ExponentDown(t, s)
        a == IF p < 0 THEN t * Pow2(0 - p) ELSE t
        b == IF p > 0 THEN s * Pow2(p) ELSE s
        d == LongDivision(a - b, b, SignificandBits)
        r == RoundBits(<<1>> \o d.bits, SignificandBits, d.rem # 0)
    IN [m |-> r.m, e |-> p - (SignificandBits - 1) + r.carry]

\* bits * k + carry, for an integer k > 0: bits is taken nine at a time
\* from its end.
RECURSIVE MulBits(_, _, _)
MulBits(bits, k, carry) ==
    IF bits = <<>> THEN DigitBits(carry, 31)
    ELSE LET w == IF Len(bits) >= LimbBits THEN LimbBits ELSE Len(bits)
             d == k * BitsToInt(SubSeq(bits, Len(bits) - w + 1, Len(bits))) + carry
         IN MulBits(SubSeq(bits, 1, Len(bits) - w), k, d \div Pow2(w))
            \o DigitBits(d % Pow2(w), w)

\* k * f for an integer k > 0 and a float f.
float_mul(k, f) ==
    LET product == Trim(MulBits(f.m, k, 0))
        dropped == Len(product) - SignificandBits
        r == RoundBits(product, SignificandBits, FALSE)
    IN IF dropped <= 0 THEN [m |-> product, e |-> f.e]
       ELSE [m |-> r.m, e |-> f.e + dropped + r.carry]

\* int(f) for a positive float f: the digits in front of the point.
int_of_float(f) ==
    LET n == Len(f.m) + f.e
    IN IF f.e >= 0 THEN BitsToInt(f.m) * Pow2(f.e)
       ELSE IF n <= 0 THEN 0
       ELSE BitsToInt(SubSeq(f.m, 1, n))

\* int(est_unique * (total_pixels / sample_pixels))
Extrapolate(est_unique, total_pixels, sample_pixels) ==
    IF est_unique = 0 \/ total_pixels = 0 THEN 0
    ELSE int_of_float(float_mul(est_unique, float_div(total_pixels, sample_pixels)))

\* min(total_pixels, int(est_unique * (total_pixels / sample_pixels))), or
\* est_unique when the sample is empty.
est_total_unique(stats) ==
    IF stats[2] > 0
    THEN Min(stats[3], Extrapolate(stats[1], stats[3], stats[2]))
    ELSE stats[1]

\* What generate_palette shows: nothing, or one of its error boxes.
NoMessage == "none"
InvalidValue == "Invalid value"
TooManyColors == "Too many colors"

\* A variant of the comparisons of the 'max' branch that blocks and asks
\* from the threshold on.
max_mode_gate_at_least(stats, max_warn, max_error, dialog) ==
    LET est == est_total_unique(stats)
    IN IF est >= max_error
       THEN [est |-> est, asked |-> FALSE, message |-> TooManyColors, call |-> "none"]
       ELSE IF est >= max_warn
       THEN [est |-> est, asked |-> TRUE, message |-> NoMessage,
             call |-> IF dialog.proceed THEN "_run_from_image_max" ELSE "none"]
       ELSE [est |-> est, asked |-> FALSE, message |-> NoMessage,
             call |-> "from_image_max"]

\* The 'max' branch of generate_palette up to the builder call, for the
\* statistics the estimator returned and the answer `dialog` of the
\* confirmation dialog: the estimate, whether the dialog was shown, the
\* error box shown, and the call made (none: the handler returns).
max_mode_gate(stats, max_warn, max_error, dialog) ==
    LET est == est_total_unique(stats)
    IN IF est > max_error
       THEN [est |-> est, asked |-> FALSE, message |-> TooManyColors, call |-> "none"]
       ELSE IF est > max_warn
       THEN [est |-> est, asked |-> TRUE, message |-> NoMessage,
             call |-> IF dialog.proceed THEN "_run_from_image_max" ELSE "none"]
       ELSE [est |-> est, asked |-> FALSE, message |-> NoMessage,
             call |-> "from_image_max"]

\* What a call of generate_palette outside the 'max' branch leaves of the
\* gate's record.
NoGate == [est |-> 0, asked |-> FALSE, message |-> NoMessage, call |-> "none"]

\* An outcome of generate_palette: the palette and the markers it leaves,
\* the exception that escapes it, the error box it shows and the builder it
\* has called.
Outcome(cs, mk, exc, message, builder) ==
    [colors |-> cs, markers |-> mk, raised |-> exc, message |-> message,
     builder |-> builder, gate |-> NoGate, stats |-> <<0, 0, 0>>, sample |-> <<>>]

\* The outcome o of the 'max' branch, with the estimator's return value e
\* and the gate's record g.
MaxOutcome(o, e, g) == [o EXCEPT !.gate = g, !.stats = e.ret, !.sample = e.sample]

\* The tail of generate_palette after a builder was called: an exception
\* the handler does not catch leaves everything as it was, otherwise the
\* markers are picked for the new palette.
Built(im, cs, mk, o, builder) ==
    IF o.raised = NoError
    THEN Outcome(o.colors, pick_markers(im, o.colors), NoError, NoMessage, builder)
    ELSE Outcome(cs, mk, o.raised, NoMessage, builder)

\* A variant that accepts every integer.
ValidCountCoerced(parsed) == parsed # None

\* n = int(val) succeeds and n > 0
ValidCount(parsed) == parsed # None /\ parsed[1] > 0

\* The outcomes of generate_palette for the entry text count_var, the
\* thresholds t, max_warn and max_error, and the answer `dialog` the
\* confirmation dialog would give.
generate_palette(im, cs, mk, count_var, t, max_warn, max_error, dialog) ==
    LET val == Strip(count_var)
        parsed == ParseInt10(val)
    IN IF im = None
       THEN {Outcome(cs, mk, NoError, NoMessage, "none")}
       ELSE IF Lower(val) = <<"m", "a", "x">>
       THEN UNION {
            LET g == max_mode_gate(e.ret, max_warn, max_error, dialog)
                \* the builder resizes the image as the estimator did
                same(outs) == {o \in outs : o.sample = e.sample}
            IN IF g.call = "none"
               THEN {MaxOutcome(Outcome(cs, mk, NoError, g.message, "none"), e, g)}
               ELSE IF g.call = "_run_from_image_max"
               THEN {MaxOutcome(IF o.raised = ValueError
                                THEN Outcome(cs, mk, NoError, TooManyColors,
                                             "from_image_max")
                                ELSE Built(im, cs, mk, o, "from_image_max"), e, g)
                     : o \in same(from_image_max(im, cs, dialog.force, t,
                                                 Some(max_error)))}
               ELSE {MaxOutcome(Built(im, cs, mk, o, "from_image_max"), e, g)
                     : o \in same(from_image_max(im, cs, FALSE, t, None))}
            : e \in estimate_unique_stats(im, t.MAX_SAMPLE_DIM)}
       ELSE IF ~ValidCount(parsed)
       THEN {Outcome(cs, mk, NoError, InvalidValue, "none")}
       ELSE {Built(im, cs, mk, o, "from_image_quant")
             : o \in from_image_quant(im, parsed[1], MAX_QUANT_DIM, cs)}

\* A variant that removes the disabled entries first to last, so that every
\* removal shifts the indices still to come.
RECURSIVE RemoveAllAscending(_, _)
RemoveAllAscending(cs, to_remove) ==
    IF to_remove = {} THEN cs
    ELSE LET idx == CHOOSE i \in to_remove : \A j \in to_remove : i <= j
         IN RemoveAllAscending(remove_color(cs, idx), to_remove \ {idx})

\* remove_selected: remove_color for every disabled entry, last first.
RECURSIVE RemoveAll(_, _)
RemoveAll(cs, to_remove) ==
    IF to_remove = {} THEN cs
    ELSE LET idx == CHOOSE i \in to_remove : \A j \in to_remove : j <= i
         IN RemoveAll(remove_color(cs, idx), to_remove \ {idx})

remove_selected(cs) ==
    RemoveAll(cs, {i \in 0..(Len(cs) - 1) : ~cs[i + 1].enabled})

\* The module defaults MAX_WARN and MAX_ERROR.
MAX_WARN == 50
MAX_ERROR == 75

\* The images a session has open: none, the example image, a single
\* transparent pixel.
AppImages ==
    {None, ExampleImage, [w |-> 1, h |-> 1, px |-> <<Transparent>>]}


\* max_warn and max_error: the defaults, and values the settings dialog can
\* store that make the example image cross them.
WarnErrorChoices == {<<MAX_WARN, MAX_ERROR>>, <<1, MAX_ERROR>>, <<0, 1>>}

\* Texts of the target count entry.
CountTexts ==
    { <<"m", "a", "x">>, <<"M", "A", "X">>, <<" ", "m", "a", "x">>,
      <<"2">>, <<"+", "1">>, <<"3", "0", "0">>,
      <<"0">>, <<"-", "1">>, <<>>, <<"a", "b", "c">>, <<"2", ".", "5">>, <<"m", "a">> }

\* The colors the color chooser hands to add_color.
ChooserColors == {Mix, Red}

NoAppArgs ==
    [before |-> <<>>, markers_before |-> <<>>, count_var |-> <<>>,
     mode |-> "", disabled_to_top |-> FALSE, index |-> 0, rgb |-> <<>>,
     message |-> NoMessage, builder |-> "none", gate |-> NoGate,
     stats |-> <<0, 0, 0>>, sample |-> <<>>,
     dialog |-> [proceed |-> FALSE, force |-> FALSE]]

AppCall(cur, mk) == [NoAppArgs EXCEPT !.before = cur, !.markers_before = mk]

AppInit ==
    /\ img \in AppImages
    /\ thr \in {PaletteDefaults @@ [max_warn |-> we[1], max_error |-> we[2]]
                  : we \in WarnErrorChoices}
    /\ colors = <<>>
    /\ op = "init"
    /\ args = NoAppArgs
    /\ raised = NoError
    /\ ret = <<>>
    /\ markers = <<>>
    /\ settings_file = NoFile

\* The answers of the confirmation dialog: (proceed, force).  Cancel
\* answers (False, False) whatever the checkbox shows.
DialogAnswers ==
    {d \in [proceed : BOOLEAN, force : BOOLEAN] : d.force => d.proceed}

\* The values of the sort combobox.
SortChoices == {"frequency", "hue", "saturation", "value", "luminance", "hex"}

\* The Generate button: enabled once an image is open.
GeneratePalette ==
    /\ AtRest
    /\ img # None
    /\ \E count_var \in CountTexts, dialog \in DialogAnswers :
        \E o \in generate_palette(img, colors, markers, count_var, thr,
                                  thr.max_warn, thr.max_error, dialog) :
            /\ op' = "generate_palette"
            /\ args' = [AppCall(colors, markers) EXCEPT !.count_var = count_var,
                                                        !.message = o.message,
                                                        !.builder = o.builder,
                                                        !.gate = o.gate,
                                                        !.stats = o.stats,
                                                        !.sample = o.sample,
                                                        !.dialog =
                                                            IF o.gate.asked
                                                            THEN dialog
                                                            ELSE NoAppArgs.dialog]
            /\ colors' = o.colors
            /\ markers' = o.markers
            /\ raised' = o.raised
            /\ ret' = <<>>
            /\ UNCHANGED <<settings_file, img, thr>>

\* _resort: sort, then the palette list is rendered again.
Resort ==
    /\ AtRest
    /\ \E mode \in SortChoices, disabled_to_top \in BOOLEAN :
        /\ op' = "resort"
        /\ args' = [AppCall(colors, markers) EXCEPT !.mode = mode,
                                                    !.disabled_to_top = disabled_to_top]
        /\ colors' = sort(colors, mode, disabled_to_top)
        /\ raised' = NoError
        /\ ret' = <<>>
        /\ UNCHANGED <<settings_file, img, thr, markers>>

\* ColorExtractor.add_color: the chooser hands over a color (a cancelled
\* chooser changes nothing).
ChooseColor ==
    /\ AtRest
    /\ Len(colors) < MaxTiles
    /\ \E rgb \in ChooserColors :
        /\ op' = "choose_color"
        /\ args' = [AppCall(colors, markers) EXCEPT !.rgb = rgb]
        /\ colors' = add_color(colors, rgb)
        /\ raised' = NoError
        /\ ret' = <<>>
        /\ UNCHANGED <<settings_file, img, thr, markers>>

RemoveSelected ==
    /\ AtRest
    /\ op' = "remove_selected"
    /\ args' = AppCall(colors, markers)
    /\ colors' = remove_selected(colors)
    /\ raised' = NoError
    /\ ret' = <<>>
    /\ UNCHANGED <<settings_file, img, thr, markers>>

\* _toggle_enabled(idx), bound to the tile of entry idx.
ClickTile ==
    /\ AtRest
    /\ \E index \in 0..(Len(colors) - 1) :
        /\ op' = "click_tile"
        /\ args' = [AppCall(colors, markers) EXCEPT !.index = index]
        /\ colors' = toggle_enabled(colors, index)
        /\ raised' = NoError
        /\ ret' = <<>>
        /\ UNCHANGED <<settings_file, img, thr, markers>>

\* The handler returns to the event loop: its record is dropped.
AppReturn ==
    /\ ~AtRest
    /\ op' = "idle"
    /\ args' = NoAppArgs
    /\ raised' = NoError
    /\ ret' = <<>>
    /\ UNCHANGED <<settings_file, img, thr, colors, markers>>

AppNext ==
    \/ GeneratePalette
    \/ Resort
    \/ ChooseColor
    \/ RemoveSelected
    \/ ClickTile
    \/ AppReturn

SpecApp == AppInit /\ [][AppNext]_vars

----------------------------------------------------------------------------
(* Sessions on images that are sampled: the settings dialog has stored     *)
(* small engine thresholds, an image with a side of three pixels is open,  *)
(* and the user presses Generate, any number of times.                     *)

WideImages ==
    {[w |-> 3, h |-> 1, px |-> <<Opaque(Red), Opaque(Red), Opaque(Green)>>],
     [w |-> 3, h |-> 1, px |-> <<Transparent, Opaque(Red), Transparent>>],
     [w |-> 1, h |-> 3, px |-> <<Opaque(Red), Opaque(Green), Opaque(Red)>>]}

\* Engine thresholds the settings dialog can store, under which the wide
\* images are sampled.
SmallThresholds ==
    [MAX_SAMPLE_DIM : {2},
     FULL_SCAN_PIXEL_LIMIT : {2, PaletteDefaults.FULL_SCAN_PIXEL_LIMIT},
     UNIQUE_THRESHOLD : {1, PaletteDefaults.UNIQUE_THRESHOLD},
     UNIQUE_RATIO_THRESHOLD : {PaletteDefaults.UNIQUE_RATIO_THRESHOLD}]

SampledInit ==
    /\ img \in WideImages
    /\ thr \in {t @@ [max_warn |-> we[1], max_error |-> we[2]]
                  : t \in SmallThresholds, we \in {<<1, 1>>, <<0, 1>>, <<1, 2>>}}
    /\ colors = <<>>
    /\ op = "init"
    /\ args = NoAppArgs
    /\ raised = NoError
    /\ ret = <<>>
    /\ markers = <<>>
    /\ settings_file = NoFile

SampledNext ==
    \/ GeneratePalette
    \/ AppReturn

SpecAppSampled == SampledInit /\ [][SampledNext]_vars

----------------------------------------------------------------------------
(* Claims on the application shell and on sequences of operations.         *)

(* C17.  In every state reachable by any sequence of UI operations         *)
(* (generate palette, add color, remove disabled colors, re-sort, toggle   *)
(* enabled), the marker list has exactly one pair per palette entry, in    *)
(* palette order: the rgb of marker i equals the rgb of palette entry i.   *)
C17_MarkersFollowPalette ==
    /\ Len(markers) = Len(colors)
    /\ \A i \in 1..Len(markers) : markers[i].rgb = colors[i].rgb

\* Every entry is in sync with its rgb: 8-bit channels, the hex value
\* '#RRGGBB' of these channels in upper case, a count that is not negative.
EntryInSync(e) ==
    /\ \A k \in 1..3 : e.rgb[k] \in 0..255
    /\ Len(e.hex) = 7
    /\ e.hex[1] = "#"
    /\ \A k \in 1..3 :
          /\ IsUpperHexDigit(e.hex[2 * k]) /\ IsUpperHexDigit(e.hex[2 * k + 1])
          /\ 16 * (CharRank(e.hex[2 * k]) - 1) + (CharRank(e.hex[2 * k + 1]) - 1) = e.rgb[k]
    /\ e.hex = rgb_to_hex(e.rgb)
    /\ e.count >= 0

(* C18.  In every state reachable by any sequence of palette operations    *)
(* (from_image_quant, from_image_max, sort, toggle_enabled, add_color with *)
(* an 8-bit triple, remove_color), every entry has hex = rgb_to_hex(rgb),  *)
(* the upper-case #RRGGBB form of its own rgb, channels in 0..255 and      *)
(* count >= 0.                                                             *)
C18_EntriesInSync ==
    \A i \in 1..Len(colors) : EntryInSync(colors[i])

\* A sorted palette that holds an entry built from the image, an added one
\* whose channels need zero padding, and a disabled one.
C18_Witness ==
    /\ op = "sort"
    /\ Len(colors) = 3
    /\ \E i \in 1..3 : colors[i].count > 0
    /\ \E i \in 1..3 : colors[i].count = 0 /\ colors[i].rgb = <<10, 20, 30>>
    /\ \E i \in 1..3 : ~colors[i].enabled
    /\ colors # args.before

\* The text of the count entry is 'max', in any case, once stripped.
IsMaxText(t) ==
    LET v == Strip(t)
    IN /\ Len(v) = 3
       /\ v[1] \in {"m", "M"} /\ v[2] \in {"a", "A"} /\ v[3] \in {"x", "X"}

\* The text is a positive integer: decimal digits, not all zero, with an
\* optional plus sign.
IsPositiveIntegerText(t) ==
    LET v == Strip(t)
        d == IF v # <<>> /\ Head(v) = "+" THEN Tail(v) ELSE v
    IN /\ d # <<>>
       /\ \A i \in 1..Len(d) : IsDecimalDigit(d[i])
       /\ \E i \in 1..Len(d) : d[i] # "0"

(* C19.  When the target count is neither 'max' nor a positive integer     *)
(* (non-numeric, zero or negative), generate_palette shows the             *)
(* invalid-value error, calls no builder, and leaves the palette and the   *)
(* markers exactly as they were.                                           *)
C19_InvalidCountRejected ==
    (op = "generate_palette"
        /\ ~IsMaxText(args.count_var) /\ ~IsPositiveIntegerText(args.count_var)) =>
        /\ args.message = InvalidValue
        /\ args.builder = "none"
        /\ raised = NoError
        /\ colors = args.before
        /\ markers = args.markers_before

\* The count 0 entered while the session holds a palette and its markers.
C19_Witness ==
    /\ op = "generate_palette"
    /\ args.count_var = <<"0">>
    /\ args.message = InvalidValue
    /\ colors # <<>>
    /\ markers # <<>>
    /\ colors = args.before

\* The pixels the builder call of the current state worked on: those the
\* resize delivered, or the image's own.
WorkingPx ==
    IF op = "from_image_quant"
    THEN (IF NeedsResize(img, args.max_dim) THEN args.sample ELSE img.px)
    ELSE SamplePx

\* cs is computed from the pixels px: every entry is enabled and counts at
\* least one pixel, the counts add up to the number of opaque pixels and
\* do not increase along the palette.
ComputedFrom(cs, px) ==
    /\ \A i \in 1..Len(cs) : cs[i].enabled /\ cs[i].count >= 1
    /\ SumCounts(cs) = Cardinality(OpaqueIdx(px))
    /\ NonIncreasingCounts(cs)

(* C20.  After any from_image_quant or from_image_max call that returns    *)
(* without error, the palette holds only entries computed from the given   *)
(* image (from its own pixels or from those of its resized sample), all    *)
(* with enabled = true: no entry present before the call (a manually added *)
(* color with count 0, a disabled flag, the prior order) survives.         *)
C20_BuildersReplace ==
    (op \in {"from_image_quant", "from_image_max"} /\ raised = NoError) =>
        \/ colors = <<>>
        \/ ComputedFrom(colors, WorkingPx)
        \/ op = "from_image_max" /\ ComputedFrom(colors, img.px)

\* from_image_max on the example image, called on a palette that held the
\* same two colors with the second one disabled: both are enabled now.
C20_Witness ==
    /\ op = "from_image_max"
    /\ raised = NoError
    /\ img = ExampleImage
    /\ Len(args.before) = 2
    /\ ~args.before[2].enabled
    /\ Len(colors) = 2
    /\ colors[2].rgb = args.before[2].rgb
    /\ colors[2].enabled

----------------------------------------------------------------------------
\* The statistics of the sample admit the exact scan: few distinct colors, or
\* few in proportion to the sample's opaque pixels, and an image whose opaque
\* pixels are within the full-scan limit.
SampleAdmits ==
    LET su == Cardinality(DistinctOpaque(SamplePx))
        sp == Cardinality(OpaqueIdx(SamplePx))
    IN /\ \/ su <= thr.UNIQUE_THRESHOLD
          \/ su * thr.UNIQUE_RATIO_THRESHOLD[2] <= thr.UNIQUE_RATIO_THRESHOLD[1] * sp
       /\ Cardinality(OpaqueIdx(img.px)) <= thr.FULL_SCAN_PIXEL_LIMIT

\* The call ended as the exact full-resolution scan ends: the palette of the
\* image's own opaque pixels, or the too-many-colors error with the palette
\* left as it was.
EndedAsFullScan ==
    \/ raised = NoError /\ IsExactPalette(colors, img.px)
    \/ /\ raised = ValueError
       /\ colors = args.before
       /\ args.max_unique_error # None
       /\ Cardinality(DistinctOpaque(img.px)) > args.max_unique_error[1]

\* The call ended with the palette of the sample's opaque pixels.
EndedFromSample == raised = NoError /\ IsExactPalette(colors, SamplePx)

(* C21.  Without force_full_scan and on an image that has an opaque pixel, *)
(* from_image_max performs the exact full-resolution scan if and only if   *)
(* the sample has at most UNIQUE_THRESHOLD distinct colors or at most the  *)
(* fraction UNIQUE_RATIO_THRESHOLD of its opaque pixels distinct, and the  *)
(* image has at most FULL_SCAN_PIXEL_LIMIT opaque pixels; otherwise the    *)
(* palette is computed from the sample alone.                              *)
C21_FullScanIffSampleAdmits ==
    (op = "from_image_max" /\ ~args.force_full_scan /\ OpaqueIdx(img.px) # {}) =>
        IF SampleAdmits THEN EndedAsFullScan ELSE EndedFromSample

----------------------------------------------------------------------------
(* C22.  A from_image_max call that does not take the exact full-scan      *)
(* branch never fails, whatever max_unique_error is and however many       *)
(* colors the sample has: it installs one entry per distinct opaque color  *)
(* of the sample, with the color's number of occurrences in the sample     *)
(* (the counts sum to the sample's opaque pixels), most frequent first.    *)
C22_FallbackNeverFails ==
    (op = "from_image_max" /\ OpaqueIdx(img.px) # {} /\ ~FullScanAdmitted) =>
        /\ raised = NoError
        /\ IsExactPalette(colors, SamplePx)
        /\ SumCounts(colors) = Cardinality(OpaqueIdx(SamplePx))

\* A call with a cap that took the sample-only branch on a sample holding
\* more distinct colors than the cap, and installed them all.
C22_Witness ==
    /\ op = "from_image_max"
    /\ ~FullScanAdmitted
    /\ args.max_unique_error # None
    /\ Cardinality(DistinctOpaque(SamplePx)) > args.max_unique_error[1]
    /\ raised = NoError
    /\ Len(colors) = Cardinality(DistinctOpaque(SamplePx))
    /\ Len(colors) >= 2
    /\ colors # args.before

----------------------------------------------------------------------------
\* a and b have the same sort key under mode.
SameKey(mode, a, b) == KeyLE(mode, a, b) /\ KeyLE(mode, b, a)

\* The entries of cs that sort() may not reorder against e: those of e's key
\* (and, when the disabled entries go first, of e's enabled flag), in the
\* order cs has them.
Peers(cs, mode, disabled_to_top, e) ==
    SelectSeq(cs, LAMBDA c : /\ SameKey(mode, c, e)
                             /\ disabled_to_top => c.enabled = e.enabled)

RecognisedModes == {"frequency", "hue", "saturation", "value", "luminance", "hex"}

(* C23.  sort is stable: entries of equal key (over the whole sequence, or *)
(* within the disabled and the enabled partition when disabled_to_top is   *)
(* set) keep the relative order they had before the call; and an           *)
(* unrecognised mode with disabled_to_top false leaves the sequence        *)
(* exactly as it was.                                                      *)
C23_SortIsStable ==
    op = "sort" =>
        /\ \A i \in 1..Len(args.before) :
              Peers(colors, args.mode, args.disabled_to_top, args.before[i])
                  = Peers(args.before, args.mode, args.disabled_to_top, args.before[i])
        /\ (args.mode \notin RecognisedModes /\ ~args.disabled_to_top) =>
              colors = args.before

\* A sort under a recognised mode that moved an entry, over a palette that
\* holds two different entries of equal key, which kept their order.
C23_Witness ==
    /\ op = "sort"
    /\ args.mode \in RecognisedModes
    /\ colors # args.before
    /\ \E i \in 1..Len(args.before) : \E j \in 1..Len(args.before) :
          /\ i < j
          /\ args.before[i] # args.before[j]
          /\ SameKey(args.mode, args.before[i], args.before[j])
          /\ args.disabled_to_top => args.before[i].enabled = args.before[j].enabled
          /\ \E k \in 1..Len(colors) : \E l \in 1..Len(colors) :
                k < l /\ colors[k] = args.before[i] /\ colors[l] = args.before[j]

----------------------------------------------------------------------------
\* The number of positions of cs that hold the entry e.
Times(cs, e) == Cardinality({i \in 1..Len(cs) : cs[i] = e})

(* C30.  sort only reorders: for every mode and either value of            *)
(* disabled_to_top the palette after the call holds the same entries (rgb, *)
(* hex, count, enabled) as before it, each as many times; and applying the *)
(* same sort once more leaves the order as it is.                          *)
C30_SortPermutesAndIsIdempotent ==
    op = "sort" =>
        /\ Len(colors) = Len(args.before)
        /\ \A i \in 1..Len(args.before) :
              Times(colors, args.before[i]) = Times(args.before, args.before[i])
        /\ sort(colors, args.mode, args.disabled_to_top) = colors

\* A sort with disabled_to_top over a palette of three entries, one of them
\* disabled and one held twice, that changed the order.
C30_Witness ==
    /\ op = "sort"
    /\ args.disabled_to_top
    /\ Len(colors) = 3
    /\ colors # args.before
    /\ \E i \in 1..3 : ~colors[i].enabled
    /\ \E i \in 1..3 : Times(colors, colors[i]) = 2
    /\ sort(colors, args.mode, args.disabled_to_top) = colors

----------------------------------------------------------------------------
\* The squared Euclidean distance of two RGB triples.
SquaredDistance(p, q) ==
    (p[1] - q[1]) * (p[1] - q[1]) + (p[2] - q[2]) * (p[2] - q[2])
    + (p[3] - q[3]) * (p[3] - q[3])

\* The first of the palette positions in `unmatched` whose color is nearest
\* to pix.
NearestUnmatched(pix, cs, unmatched) ==
    CHOOSE i \in unmatched :
        /\ \A j \in unmatched :
              SquaredDistance(pix, cs[i].rgb) <= SquaredDistance(pix, cs[j].rgb)
        /\ \A j \in unmatched :
              j < i => SquaredDistance(pix, cs[j].rgb) > SquaredDistance(pix, cs[i].rgb)

\* The scan as described: the pixels from k on are visited in row-major
\* order while a palette color is unmatched; an opaque pixel goes to the
\* nearest still-unmatched color.  found maps palette positions to pixels.
RECURSIVE ScanFrom(_, _, _, _, _)
ScanFrom(k, im, cs, unmatched, found) ==
    IF k > Len(im.px) \/ unmatched = {} THEN found
    ELSE IF im.px[k].a = 0 THEN ScanFrom(k + 1, im, cs, unmatched, found)
    ELSE LET i == NearestUnmatched(im.px[k].rgb, cs, unmatched)
         IN ScanFrom(k + 1, im, cs, unmatched \ {i}, [found EXCEPT ![i] = k])

\* The markers the described scan gives the palette cs on the image im.
DescribedMarkers(im, cs) ==
    LET found == ScanFrom(1, im, cs, 1..Len(cs), [i \in 1..Len(cs) |-> 0])
    IN [i \in 1..Len(cs) |->
           [rgb |-> cs[i].rgb,
            pos |-> IF found[i] = 0 THEN None
                    ELSE Some(<<(found[i] - 1) % im.w, (found[i] - 1) \div im.w>>)]]

(* C24.  _pick_markers visits the opaque pixels in scan order, measures    *)
(* for each the squared Euclidean RGB distance to the palette colors that  *)
(* are still unmatched and gives the pixel to the nearest of them, until   *)
(* every color is matched; an entry has no coordinate only if no pixel was *)
(* given to it, and every entry has none when the image has no opaque      *)
(* pixel.                                                                  *)
C24_MarkersAsDescribed ==
    (op = "generate_palette" /\ args.builder # "none" /\ raised = NoError
         /\ args.message = NoMessage) =>
        markers = DescribedMarkers(img, colors)

----------------------------------------------------------------------------
(* The persisted settings.  The seven thresholds live in thr; the settings *)
(* file is [kind, data]: absent, unreadable (open or json.load fails), a   *)
(* JSON document that is not an object, or an object, whose data maps the  *)
(* keys it holds to JSON values: an integer, a float (a rational <<n, d>>) *)
(* a string or null (or the mark that the object does not hold the key).   *)

\* DEFAULT_SETTINGS, under the names of the attributes that hold the values.
DefaultSettings ==
    PaletteDefaults @@ [MAX_QUANT_DIM |-> MAX_QUANT_DIM,
                        max_warn |-> MAX_WARN, max_error |-> MAX_ERROR]

\* The keys, in the order in which do_save and load_settings apply them.
SettingsKeys ==
    <<"MAX_SAMPLE_DIM", "FULL_SCAN_PIXEL_LIMIT", "UNIQUE_THRESHOLD",
      "UNIQUE_RATIO_THRESHOLD", "MAX_QUANT_DIM", "MAX_WARN", "MAX_ERROR">>

RECURSIVE Gcd(_, _)
Gcd(a, b) == IF b = 0 THEN a ELSE Gcd(b, a % b)

\* The rational n/d in lowest terms, d > 0.
Rat(n, d) ==
    LET g == Gcd(IF n < 0 THEN 0 - n ELSE n, d)
    IN <<n \div g, d \div g>>

RECURSIVE Pow10(_)
Pow10(k) == IF k = 0 THEN 1 ELSE 10 * Pow10(k - 1)

\* float(s) for a text of digits with at most one point: surrounding
\* whitespace is dropped and one sign is accepted (exponents, 'inf', 'nan'
\* and '_' are not among the texts drawn).  None stands for the ValueError.
ParseFloat(s) ==
    LET t == Strip(s)
        neg == t # <<>> /\ Head(t) = "-"
        d == IF t # <<>> /\ Head(t) \in {"+", "-"} THEN Tail(t) ELSE t
        points == {i \in 1..Len(d) : d[i] = "."}
        digits == SelectSeq(d, IsDecimalDigit)
        frac == IF points = {} THEN 0 ELSE Len(d) - (CHOOSE i \in points : TRUE)
    IN IF \/ digits = <<>>
          \/ Cardinality(points) > 1
          \/ \E i \in 1..Len(d) : ~IsDecimalDigit(d[i]) /\ d[i] # "."
       THEN None
       ELSE Some(Rat(IF neg THEN 0 - DecimalValue(digits) ELSE DecimalValue(digits),
                     Pow10(frac)))

\* JSON values.
JsonInt(n) == [t |-> "int", n |-> n, q |-> <<0, 1>>, s |-> <<>>]
JsonFloat(q) == [t |-> "float", n |-> 0, q |-> q, s |-> <<>>]
JsonStr(s) == [t |-> "str", n |-> 0, q |-> <<0, 1>>, s |-> s]
JsonNull == [t |-> "null", n |-> 0, q |-> <<0, 1>>, s |-> <<>>]
NoValue == [t |-> "absent", n |-> 0, q |-> <<0, 1>>, s |-> <<>>]

\* key in data
Holds(data, key) == key \in DOMAIN data /\ data[key] # NoValue

\* int(v) for a JSON value: a float is truncated towards zero, a string is
\* parsed, null raises TypeError (None).
IntOfJson(v) ==
    CASE v.t = "int"   -> Some(v.n)
      [] v.t = "float" -> Some(IF v.q[1] < 0 THEN 0 - ((0 - v.q[1]) \div v.q[2])
                               ELSE v.q[1] \div v.q[2])
      [] v.t = "str"   -> ParseInt10(v.s)
      [] OTHER         -> None

\* float(v) for a JSON value.
FloatOfJson(v) ==
    CASE v.t = "int"   -> Some(<<v.n, 1>>)
      [] v.t = "float" -> Some(v.q)
      [] v.t = "str"   -> ParseFloat(v.s)
      [] OTHER         -> None

\* The conversion each key goes through: float for the ratio, int for the
\* others.
ConvertSetting(key, v) ==
    IF key = "UNIQUE_RATIO_THRESHOLD" THEN FloatOfJson(v) ELSE IntOfJson(v)

\* The attribute a key is stored in.
Attr(key) ==
    CASE key = "MAX_WARN"  -> "max_warn"
      [] key = "MAX_ERROR" -> "max_error"
      [] OTHER             -> key

\* The assignments of do_save and of load_settings, from the i-th key on:
\* each key that data holds is converted and stored at once; the first
\* conversion that fails ends the run.  [thr, failed].
RECURSIVE ApplyFrom(_, _, _)
ApplyFrom(i, t, data) ==
    IF i > Len(SettingsKeys) THEN [thr |-> t, failed |-> FALSE]
    ELSE LET key == SettingsKeys[i]
         IN IF ~Holds(data, key) THEN ApplyFrom(i + 1, t, data)
            ELSE LET c == ConvertSetting(key, data[key])
                 IN IF c = None THEN [thr |-> t, failed |-> TRUE]
                    ELSE ApplyFrom(i + 1, [t EXCEPT ![Attr(key)] = c[1]], data)

\* A variant of load_settings that lets a failure to read the file escape.
load_settings_unguarded(file, t) ==
    IF file.kind = "absent" THEN [thr |-> t, raised |-> NoError, failed |-> FALSE]
    ELSE IF file.kind = "unreadable"
    THEN [thr |-> t, raised |-> "Exception", failed |-> FALSE]
    ELSE IF file.kind = "not_object"
    THEN [thr |-> t, raised |-> NoError, failed |-> FALSE]
    ELSE LET r == ApplyFrom(1, t, file.data)
         IN [thr |-> r.thr, raised |-> NoError, failed |-> r.failed]

\* load_settings: [thr, raised, failed] (failed: the apply step was cut
\* short by a value that does not convert).
load_settings(file, t) ==
    IF file.kind \in {"absent", "unreadable", "not_object"}
    THEN [thr |-> t, raised |-> NoError, failed |-> FALSE]
    ELSE LET r == ApplyFrom(1, t, file.data)
         IN [thr |-> r.thr, raised |-> NoError, failed |-> r.failed]

\* What save_settings writes.
SavedSettings(t) ==
    [kind |-> "object",
     data |-> [key \in {SettingsKeys[i] : i \in 1..Len(SettingsKeys)} |->
                  IF key = "UNIQUE_RATIO_THRESHOLD"
                  THEN JsonFloat(t[Attr(key)])
                  ELSE JsonInt(t[Attr(key)])]]

\* save_settings: the file afterwards; a failure to write is logged and
\* leaves the file as it was.
save_settings(file, t) == {SavedSettings(t), file}

\* do_save for the texts `fields` of the dialog's entries: [thr, file,
\* message].
do_save(fields, file, t) ==
    LET r == ApplyFrom(1, t, [key \in DOMAIN fields |-> JsonStr(fields[key])])
    IN IF r.failed
       THEN {[thr |-> r.thr, file |-> file, message |-> InvalidValue]}
       ELSE {[thr |-> r.thr, file |-> f, message |-> "Saved"]
             : f \in save_settings(file, r.thr)}

----------------------------------------------------------------------------
(* The settings as a state machine: the application starts with the        *)
(* defaults and whatever file is on disk, loads it, and the user presses   *)
(* Save in the settings dialog with any texts in its entries.              *)

\* For each key, a value of the file that converts and one that does not.
FileValues ==
    [MAX_SAMPLE_DIM |-> {JsonInt(2), JsonStr(<<"a", "b", "c">>)},
     FULL_SCAN_PIXEL_LIMIT |-> {JsonStr(<<"4">>), JsonNull},
     UNIQUE_THRESHOLD |-> {JsonFloat(<<3, 2>>), JsonStr(<<>>)},
     UNIQUE_RATIO_THRESHOLD |-> {JsonFloat(<<1, 2>>),
                                 JsonStr(<<"5", "%">>)},
     MAX_QUANT_DIM |-> {JsonInt(2), JsonStr(<<"2", ".", "5">>)},
     MAX_WARN |-> {JsonInt(0), JsonNull},
     MAX_ERROR |-> {JsonStr(<<" ", "1">>), JsonStr(<<"x">>)}]

\* The objects a settings file can hold: any keys, each with one of its
\* values.
SettingsObjects ==
    [MAX_SAMPLE_DIM : FileValues.MAX_SAMPLE_DIM \cup {NoValue},
     FULL_SCAN_PIXEL_LIMIT : FileValues.FULL_SCAN_PIXEL_LIMIT \cup {NoValue},
     UNIQUE_THRESHOLD : FileValues.UNIQUE_THRESHOLD \cup {NoValue},
     UNIQUE_RATIO_THRESHOLD : FileValues.UNIQUE_RATIO_THRESHOLD \cup {NoValue},
     MAX_QUANT_DIM : FileValues.MAX_QUANT_DIM \cup {NoValue},
     MAX_WARN : FileValues.MAX_WARN \cup {NoValue},
     MAX_ERROR : FileValues.MAX_ERROR \cup {NoValue}]

SettingsFiles ==
    {NoFile, [kind |-> "unreadable", data |-> <<>>],
     [kind |-> "not_object", data |-> <<>>]}
    \cup {[kind |-> "object", data |-> d] : d \in SettingsObjects}

\* For each entry of the dialog, a text that converts and one that does not.
FieldTexts ==
    [MAX_SAMPLE_DIM |-> {<<"3">>, <<>>},
     FULL_SCAN_PIXEL_LIMIT |-> {<<"9">>, <<"9", ".", "0">>},
     UNIQUE_THRESHOLD |-> {<<" ", "3">>, <<"a", "b", "c">>},
     UNIQUE_RATIO_THRESHOLD |-> {<<"0", ".", "2", "5">>, <<"5", "%">>},
     MAX_QUANT_DIM |-> {<<"3">>, <<"-">>},
     MAX_WARN |-> {<<"1">>, <<"a", "b", "c">>},
     MAX_ERROR |-> {<<"2">>, <<>>}]

DialogFields ==
    [MAX_SAMPLE_DIM : FieldTexts.MAX_SAMPLE_DIM,
     FULL_SCAN_PIXEL_LIMIT : FieldTexts.FULL_SCAN_PIXEL_LIMIT,
     UNIQUE_THRESHOLD : FieldTexts.UNIQUE_THRESHOLD,
     UNIQUE_RATIO_THRESHOLD : FieldTexts.UNIQUE_RATIO_THRESHOLD,
     MAX_QUANT_DIM : FieldTexts.MAX_QUANT_DIM,
     MAX_WARN : FieldTexts.MAX_WARN,
     MAX_ERROR : FieldTexts.MAX_ERROR]

NoSettingsArgs ==
    [thr_before |-> DefaultSettings, file_before |-> NoFile, fields |-> <<>>,
     failed |-> FALSE, message |-> NoMessage]

SettingsInit ==
    /\ img = None
    /\ thr = DefaultSettings
    /\ colors = <<>>
    /\ op = "init"
    /\ args = NoSettingsArgs
    /\ raised = NoError
    /\ ret = <<>>
    /\ markers = <<>>
    /\ settings_file \in SettingsFiles

\* __init__ calls load_settings once the defaults are in place.
LoadSettings ==
    /\ op = "init"
    /\ LET r == load_settings(settings_file, thr)
       IN /\ op' = "load_settings"
          /\ args' = [NoSettingsArgs EXCEPT !.thr_before = thr,
                                            !.file_before = settings_file,
                                            !.failed = r.failed]
          /\ thr' = r.thr
          /\ raised' = r.raised
    /\ UNCHANGED <<settings_file, img, colors, ret, markers>>

\* The Save button of the settings dialog.
DoSave ==
    /\ op = "load_settings"
    /\ \E fields \in DialogFields :
        \E o \in do_save(fields, settings_file, thr) :
            /\ op' = "do_save"
            /\ args' = [NoSettingsArgs EXCEPT !.thr_before = thr,
                                              !.file_before = settings_file,
                                              !.fields = fields,
                                              !.failed = (o.message = InvalidValue),
                                              !.message = o.message]
            /\ thr' = o.thr
            /\ settings_file' = o.file
            /\ raised' = NoError
    /\ UNCHANGED <<img, colors, ret, markers>>

SettingsNext ==
    \/ LoadSettings
    \/ DoSave

SpecSettings == SettingsInit /\ [][SettingsNext]_vars

----------------------------------------------------------------------------
(* C26.  When the settings file is absent, or reading or parsing it fails, *)
(* load_settings raises nothing and each of the seven thresholds keeps its *)
(* default.                                                                *)
C26_UnreadableFileKeepsDefaults ==
    (op = "load_settings" /\ args.file_before.kind \in {"absent", "unreadable"}) =>
        /\ raised = NoError
        /\ thr = DefaultSettings

\* load_settings has run on a file that could not be read or parsed.
C26_Witness ==
    /\ op = "load_settings"
    /\ args.file_before.kind = "unreadable"
    /\ raised = NoError
    /\ thr = DefaultSettings

(* C28.  Threshold updates are all-or-nothing: when the Save button of the *)
(* settings dialog, or load_settings on a file, is stopped by a value that *)
(* does not convert to a number, none of the seven thresholds has changed  *)
(* and the settings file is as it was.                                     *)
C28_RejectedUpdateChangesNothing ==
    (op \in {"do_save", "load_settings"} /\ args.failed) =>
        /\ thr = args.thr_before
        /\ settings_file = args.file_before

----------------------------------------------------------------------------
----------------------------------------------------------------------------
\* generate_palette has run its 'max' branch and from_image_max has
\* installed a palette.
MaxModeInstalled ==
    /\ op = "generate_palette"
    /\ args.builder = "from_image_max"
    /\ args.message = NoMessage
    /\ raised = NoError

(* C27.  After any generate_palette call in 'max' mode that installs a     *)
(* palette, the palette holds at most max_error entries, for every image   *)
(* and every setting of the thresholds.                                    *)
C27_MaxModePaletteWithinMaxError ==
    MaxModeInstalled => Len(colors) <= thr.max_error

----------------------------------------------------------------------------
(* The gate of the 'max' branch on images too large to enumerate: the      *)
(* handler is taken up where estimate_unique_stats has returned, with the  *)
(* returned statistics in ret, and runs to the point where it returns or   *)
(* calls the builder.                                                      *)

\* The largest sample and the largest image, in opaque pixels.
MaxSamplePixels == 11
MaxTotalPixels == 15

\* What estimate_unique_stats can return: (0, 0, 0) for an image without an
\* opaque pixel, (0, 0, total) for a sample without one, and otherwise
\* 1 <= unique <= sample pixels, with at least one opaque pixel in the image.
GateStats ==
    {<<0, 0, 0>>}
    \cup {<<0, 0, t>> : t \in 1..MaxTotalPixels}
    \cup UNION {{<<u, s, t>> : u \in 1..s, t \in 1..MaxTotalPixels}
                  : s \in 1..MaxSamplePixels}

\* max_warn and max_error: the defaults, and values the settings dialog can
\* store (it compares neither with the other).
GateWarnError == {<<MAX_WARN, MAX_ERROR>>, <<14, 14>>, <<13, 14>>, <<14, 13>>}

\* An image that is open but not enumerated: of it the gate sees only the
\* statistics.
OpenImage == [w |-> 0, h |-> 0, px |-> <<>>]

GateInit ==
    /\ img = OpenImage
    /\ thr \in {PaletteDefaults @@ [max_warn |-> we[1], max_error |-> we[2]]
                  : we \in GateWarnError}
    /\ colors \in {<<>>, <<Entry(Mix, 0)>>}
    /\ op = "estimate_unique_stats"
    /\ args = NoAppArgs
    /\ raised = NoError
    /\ ret \in GateStats
    /\ markers = <<>>
    /\ settings_file = NoFile

\* generate_palette from the estimator's return to its own return or to the
\* call of the builder.
MaxModeGate ==
    /\ op = "estimate_unique_stats"
    /\ \E dialog \in DialogAnswers :
        \E g \in {max_mode_gate(ret, thr.max_warn, thr.max_error, dialog)} :
            /\ op' = "max_mode_gate"
            /\ args' = [AppCall(colors, markers) EXCEPT
                            !.count_var = <<"m", "a", "x">>,
                            !.message = g.message,
                            !.gate = g,
                            !.stats = ret,
                            !.dialog = IF g.asked THEN dialog ELSE NoAppArgs.dialog]
            /\ raised' = NoError
            /\ UNCHANGED <<settings_file, img, thr, colors, markers, ret>>

GateNext == MaxModeGate

SpecGate == GateInit /\ [][GateNext]_vars

----------------------------------------------------------------------------
\* min(total, floor(unique * total / sample pixels)), or unique when the
\* sample is empty: the estimate in exact arithmetic.
FloorEstimate(stats) ==
    IF stats[2] > 0
    THEN Min(stats[3], (stats[1] * stats[3]) \div stats[2])
    ELSE stats[1]

\* The gate has decided on the estimate est as the three cases say.
GatedOn(est) ==
    /\ est > thr.max_error =>
          /\ args.gate.call = "none"
          /\ ~args.gate.asked
          /\ colors = args.before /\ markers = args.markers_before
    /\ (thr.max_warn < est /\ est <= thr.max_error) =>
          /\ args.gate.asked
          /\ args.gate.call # "none" <=> args.dialog.proceed
          /\ ~args.dialog.proceed =>
                colors = args.before /\ markers = args.markers_before
    /\ est <= thr.max_warn =>
          /\ args.gate.call = "from_image_max"
          /\ ~args.gate.asked

(* C25.  In 'max' mode generate_palette computes the estimate              *)
(* min(totalPixels, floor(sampleUnique * totalPixels / samplePixels)), or  *)
(* sampleUnique when the sample is empty, and gates the builder on it:     *)
(* above max_error no builder is invoked and palette and markers are       *)
(* unchanged; between max_warn (exclusive) and max_error (inclusive) the   *)
(* builder is invoked only after the user confirms, and declining leaves   *)
(* palette and markers unchanged; up to max_warn the builder is invoked    *)
(* without confirmation.                                                   *)
C25_GatedOnFloorEstimate ==
    op = "max_mode_gate" =>
        /\ args.gate.est = FloorEstimate(args.stats)
        /\ GatedOn(FloorEstimate(args.stats))

(* C25, as the code has it.  The estimate is the floor estimate or one     *)
(* less (the quotient and the product are rounded to double precision:     *)
(* 14 for 11 unique colors in 11 of 15 pixels), and it is the floor        *)
(* estimate whenever the sample pixels divide the total pixels.  Above     *)
(* max_error no builder is invoked and palette and markers are unchanged.  *)
(* Otherwise, above max_warn the dialog is shown, the builder is invoked   *)
(* exactly when the user confirms, and declining leaves palette and        *)
(* markers unchanged; up to max_warn (and up to max_error) the builder is  *)
(* invoked without the dialog.                                             *)
C25_GatedOnFloatEstimate ==
    op = "max_mode_gate" =>
        LET est == args.gate.est
            exact == FloorEstimate(args.stats)
        IN /\ est \in {exact, Min(args.stats[3], Max(exact - 1, 0))}
           /\ (args.stats[2] > 0 /\ args.stats[3] % args.stats[2] = 0) => est = exact
           /\ args.stats = <<11, 11, 15>> => est = 14
           /\ est > thr.max_error =>
                 /\ args.gate.call = "none"
                 /\ ~args.gate.asked
                 /\ args.message = TooManyColors
                 /\ colors = args.before /\ markers = args.markers_before
           /\ (est <= thr.max_error /\ est > thr.max_warn) =>
                 /\ args.gate.asked
                 /\ args.gate.call = (IF args.dialog.proceed
                                      THEN "_run_from_image_max" ELSE "none")
                 /\ ~args.dialog.proceed =>
                       colors = args.before /\ markers = args.markers_before
           /\ (est <= thr.max_error /\ est <= thr.max_warn) =>
                 /\ args.gate.call = "from_image_max"
                 /\ ~args.gate.asked

\* The estimate fell one short of the floor estimate and came to lie on
\* max_warn: the builder is called without the dialog.
C25_Witness ==
    /\ op = "max_mode_gate"
    /\ args.stats = <<11, 11, 15>>
    /\ args.gate.est = 14
    /\ thr.max_warn = 14
    /\ args.gate.call = "from_image_max"
    /\ colors = <<Entry(Mix, 0)>>

============================================================================
